---- MODULE Spec2Model ----
(***************************************************************************)
(* Verified-boot image tooling: the region locator's clamp                 *)
(* (fmap_limit_area), the BIOS image show and sign paths (ft_show_bios,    *)
(* ft_sign_bios, prepare_slot, write_new_preamble, sign_bios_at_end) and   *)
(* the kernel image utility (KernelUtility::GenerateSignedImage, main).    *)
(*                                                                         *)
(* A uint32_t is kept at its full width.  TLC's integers stop at 2^31 - 1, *)
(* so a 32-bit value is the pair <<hi, lo>> of its two 16-bit halves and   *)
(* the arithmetic below carries from lo to hi and drops the carry out of   *)
(* hi, which is what the C addition does.                                  *)
(***************************************************************************)
EXTENDS Integers, Sequences, FiniteSets, TLC

VARIABLES lim, wnp, prep, rec, sp

\* The BIOS image run (ft_show_bios or ft_sign_bios on one mapped file).
VARIABLES
    op,           \* "show" or "sign": which of the two runs this is
    pc,           \* the position of the run
    state_c,      \* the loop counter of ft_show_bios (state.c)
    buf,          \* the mapped image, byte by byte (the FMAP table apart)
    fmap,         \* the FMAP table of the mapped image: the area headers
    orig,         \* the file as it was opened: [buf, fmap]
    state,        \* struct bios_state_s: the area[] array
    sign_option,  \* the global sign_option
    uses_cbfs_integration,
    retval,       \* the value ft_show_bios / ft_sign_bios returns
    log,          \* the messages printed (INFO, WARN, ERROR, FATAL), but
                  \* for prepare_slot's remark on the chain it found
    loem,         \* the LOEM vblock files written
    trace         \* the areas shown and the preambles written, in order

biosVars ==
    <<op, pc, state_c, buf, fmap, orig, state, sign_option, uses_cbfs_integration,
      retval, log, loem, trace>>

\* One run of kernel_utility (its main).
VARIABLES
    kpc,          \* the position of the run
    options,      \* the command line as ParseCmdLineOptions stored it
    image_,       \* the fields of *image_ assigned so far, with their values
    calls,        \* the library operations called, in order
    subkey_header_buf,  \* what BufferFromFile(subkey_in_file_) returned
    returned,     \* what GenerateSignedImage or VerifySignedImage returned
    exit_status   \* the value main returns, once kpc = "exit"

kuVars == <<kpc, options, image_, calls, subkey_header_buf, returned,
            exit_status>>

\* The display of vboot_display: the three statics, the localization
\* index of the nvdata, what the platform has drawn, and the last call.
VARIABLES disp

\* One run of do_flash: its position, the options, cfg and the object it
\* points to, the servo control, ret, and what ran with the value it
\* returned, in order.
VARIABLES fl

\* Each run leaves the state of the others alone.
LimOnly == UNCHANGED <<wnp, prep, biosVars, kuVars, rec, sp, disp, fl>>

WnpOnly == UNCHANGED <<lim, prep, biosVars, kuVars, rec, sp, disp, fl>>

BiosOnly == UNCHANGED <<lim, wnp, prep, kuVars, rec, sp, disp, fl>>

KuOnly == UNCHANGED <<lim, wnp, prep, biosVars, rec, sp, disp, fl>>

PrepOnly == UNCHANGED <<lim, wnp, biosVars, kuVars, rec, sp, disp, fl>>

RecOnly == UNCHANGED <<lim, wnp, prep, biosVars, kuVars, sp, disp, fl>>

SpOnly == UNCHANGED <<lim, wnp, prep, biosVars, kuVars, rec, disp, fl>>

DispOnly == UNCHANGED <<lim, wnp, prep, biosVars, kuVars, rec, sp, fl>>

FlashOnly == UNCHANGED <<lim, wnp, prep, biosVars, kuVars, rec, sp, disp>>

\* ------------------------------------------------------------------ bounds

\* How many values at each end of a 16-bit half are sampled.
EdgeSpan == 1

\* The length of the buffer write_new_preamble is exercised on alone.
WnpBufLen == 4

\* The layout of the BIOS images: the size of the GBB and of each FW_MAIN
\* area, of the keyblock the signer is given and of the preamble it
\* creates, the bytes a VBLOCK area has to spare when both fit, and by how
\* many bytes the undersized VBLOCK area is too short.
BodySize == 2

KeyblockSize == 2

PreambleSize == 3

Slack == 1

Shortfall == 4

\* The number of signing algorithms (kNumAlgorithms), kept small.
kNumAlgorithms == 3

\* The longest of the subkey header files that stop within the fixed fields.
MaxStub == 3

\* The bytes a pipe holds before a write to it blocks.
PipeCap == 2

\* The size of the larger output buffers.
OutSize == 2

\* The screens of the display calls are VB_SCREEN_BLANK..MaxScreen, the
\* selected indexes 0..MaxIndex.
MaxScreen == 2

MaxIndex == 1

\* The small localization indexes and counts are 0..MaxLoc.
MaxLoc == 2

\* How many arrow keys one run handles.
MaxKeys == 1

\* ------------------------------------------------------------- uint32_t

Half == 2^16

HalfSamples == (0..EdgeSpan) \cup ((Half - 1 - EdgeSpan)..(Half - 1))

U32Samples == HalfSamples \X HalfSamples

\* The uint32_t with the value n, for 0 <= n < 2^31.
U32(n) == <<n \div Half, n % Half>>

\* The value of a uint32_t known to be below 2^31.
Nat32(a) == a[1] * Half + a[2]

U32Zero == <<0, 0>>

\* a + b on uint32_t: the carry out of the high half is lost.
AddU32(a, b) ==
    LET lo == a[2] + b[2]
        hi == a[1] + b[1] + (lo \div Half)
    IN  <<hi % Half, lo % Half>>

\* a < b and a > b on uint32_t.
LtU32(a, b) == a[1] < b[1] \/ (a[1] = b[1] /\ a[2] < b[2])

GtU32(a, b) == LtU32(b, a)

LeU32(a, b) == ~LtU32(b, a)

\* ------------------------------------------------------- fmap_limit_area

\* fmap_limit_area(ah, len) without the wrap test: what the code would be
\* with only "sum > len".
FmapLimitAreaNoWrapTest(ah, len) ==
    LET sum == AddU32(ah.area_offset, ah.area_size)
    IN  IF GtU32(sum, len)
        THEN [area_offset |-> U32Zero, area_size |-> U32Zero]
        ELSE ah

\* fmap_limit_area(ah, len): the area header after the call.
FmapLimitArea(ah, len) ==
    LET sum == AddU32(ah.area_offset, ah.area_size)
    IN  IF LtU32(sum, ah.area_size) \/ GtU32(sum, len)
        THEN [area_offset |-> U32Zero, area_size |-> U32Zero]
        ELSE ah

\* The harness of fmap_limit_area: an area header and a buffer length are
\* chosen, then the function is applied once.
LimInit ==
    \E o \in U32Samples, s \in U32Samples, l \in U32Samples :
        lim = [pc |-> "call", len |-> l,
               in |-> [area_offset |-> o, area_size |-> s],
               ah |-> [area_offset |-> o, area_size |-> s]]

LimIdle == lim = [pc |-> "off"]

LimCall ==
    /\ lim.pc = "call"
    /\ lim' = [lim EXCEPT !.pc = "done", !.ah = FmapLimitArea(lim.ah, lim.len)]
    /\ LimOnly

\* ---------------------------------------------------- write_new_preamble

\* The bytes of the image buffer are tagged with where they came from, so a
\* copy is visible: <<"img", i>> is byte i of the file as it was opened,
\* <<"kb", j>> byte j of the caller's keyblock and <<"pre", j>> byte j of
\* the preamble built by vb2_create_fw_preamble.
OrigBytes(n) == [i \in 0..(n - 1) |-> <<"img", i>>]

\* Whether byte i of the buffer is hit by memcpy(buf + dst, src, n), where
\* dst is an offset known to be small and n a uint32_t.
InCopy(i, dst, n) == i >= dst /\ (n[1] > 0 \/ i - dst < n[2])

\* Whether memcpy(buf + dst, src, n) runs past the end of a buffer of
\* buflen bytes.
CopyOverruns(dst, n, buflen) == n[1] > 0 \/ dst + n[2] > buflen

\* The fit test of write_new_preamble, line 314, negated:
\* !(keyblock_size + preamble_size > vblock->len), in uint32_t.
Fits(ks, ps, len) == ~GtU32(AddU32(ks, ps), len)

\* No body signature: it could not be made, or no call was made.
NoBodySignature == [kind |-> "none", data_size |-> U32Zero]

\* Lines 292-297 with the test of the metadata hash left out: the
\* signature is always computed over the body.
BodySignatureCalculated(fw) ==
    [kind |-> "calculated", data_size |-> fw.len]

\* The body signature write_new_preamble asks for: from the metadata hash
\* when the body carries one, else computed over the first fw.len bytes.
BodySignature(fw) ==
    IF fw.metadata_hash
    THEN [kind |-> "from_hash", data_size |-> fw.len]
    ELSE [kind |-> "calculated", data_size |-> fw.len]

\* write_new_preamble(vblock, fw_body, signkey, keyblock) on the buffer
\* bytes: vblock is the area at offset vb.offset with length vb.len, ks is
\* keyblock->keyblock_size, ps preamble->preamble_size, sigOk and preOk say
\* whether the signature and the preamble could be created.  The result is
\* the return value, the buffer afterwards, and whether a copy ran past
\* the end of the buffer (undefined behaviour).
WriteNewPreamble(bytes, vb, fw, ks, ps, sigOk, preOk) ==
    LET buflen == Cardinality(DOMAIN bytes)
        dst    == Nat32(vb.offset)
    IN  IF ~sigOk
        THEN [retval |-> 1, bytes |-> bytes, overrun |-> FALSE,
              body_sig |-> NoBodySignature]
        ELSE IF ~preOk \/ ~Fits(ks, ps, vb.len)
        THEN [retval |-> 1, bytes |-> bytes, overrun |-> FALSE,
              body_sig |-> BodySignature(fw)]
        ELSE [retval |-> 0,
              bytes |-> [i \in DOMAIN bytes |->
                  IF InCopy(i, dst, ks) THEN <<"kb", i - dst>>
                  ELSE IF ks[1] = 0 /\ InCopy(i, dst + ks[2], ps)
                  THEN <<"pre", i - dst - ks[2]>>
                  ELSE bytes[i]],
              overrun |-> \/ CopyOverruns(dst, ks, buflen)
                          \/ ks[1] > 0
                          \/ CopyOverruns(dst + ks[2], ps, buflen),
              body_sig |-> BodySignature(fw)]

\* The harness of write_new_preamble: a buffer of WnpBufLen bytes whose
\* VBLOCK area starts at byte 1, a keyblock size and a preamble size
\* of any 32-bit value.
WnpSizes == U32Samples \cup {U32(n) : n \in 0..WnpBufLen}

WnpInit ==
    \E ks \in WnpSizes, ps \in WnpSizes, len \in 0..(WnpBufLen - 1),
       sigOk \in BOOLEAN, preOk \in BOOLEAN, mh \in BOOLEAN :
        wnp = [pc |-> "call", bytes |-> OrigBytes(WnpBufLen),
               vblock |-> [offset |-> U32(1), len |-> U32(len)],
               fw_body |-> [metadata_hash |-> mh, len |-> U32(1)],
               keyblock_size |-> ks, preamble_size |-> ps,
               sigOk |-> sigOk, preOk |-> preOk,
               retval |-> -1, overrun |-> FALSE]

WnpIdle == wnp = [pc |-> "off"]

\* The call.  A copy past the end of the mapping is undefined behaviour:
\* the process is killed by the fault or goes on and returns.
WnpCall ==
    /\ wnp.pc = "call"
    /\ LET r == WriteNewPreamble(wnp.bytes, wnp.vblock, wnp.fw_body,
                                 wnp.keyblock_size, wnp.preamble_size,
                                 wnp.sigOk, wnp.preOk)
       IN  \E end \in (IF r.overrun THEN {"crashed", "done"} ELSE {"done"}) :
               wnp' = [wnp EXCEPT !.pc = end, !.bytes = r.bytes,
                                  !.retval = r.retval,
                                  !.overrun = r.overrun]
    /\ WnpOnly

\* ------------------------------------------------------ the BIOS image

\* enum bios_component, in the order of fmap_show_fn[] and fmap_name[].
BIOS_FMAP_GBB == "GBB"

BIOS_FMAP_FW_MAIN_A == "FW_MAIN_A"

BIOS_FMAP_FW_MAIN_B == "FW_MAIN_B"

BIOS_FMAP_VBLOCK_A == "VBLOCK_A"

BIOS_FMAP_VBLOCK_B == "VBLOCK_B"

\* The names of the areas slot by slot: each body followed by its chain.
fmap_name_by_slot ==
    <<BIOS_FMAP_GBB, BIOS_FMAP_FW_MAIN_A, BIOS_FMAP_VBLOCK_A,
      BIOS_FMAP_FW_MAIN_B, BIOS_FMAP_VBLOCK_B>>

fmap_name ==
    <<BIOS_FMAP_GBB, BIOS_FMAP_FW_MAIN_A, BIOS_FMAP_FW_MAIN_B,
      BIOS_FMAP_VBLOCK_A, BIOS_FMAP_VBLOCK_B>>

NUM_BIOS_COMPONENTS == Len(fmap_name)

Components == {fmap_name[i] : i \in 1..NUM_BIOS_COMPONENTS}

FwMains == {BIOS_FMAP_FW_MAIN_A, BIOS_FMAP_FW_MAIN_B}

Vblocks == {BIOS_FMAP_VBLOCK_A, BIOS_FMAP_VBLOCK_B}

\* A VBLOCK area that holds the keyblock and the preamble, with room.
VblockFull == KeyblockSize + PreambleSize + Slack

\* A VBLOCK area Shortfall bytes too short for them.
VblockShort ==
    IF KeyblockSize + PreambleSize >= Shortfall
    THEN KeyblockSize + PreambleSize - Shortfall
    ELSE 0

\* Where each area lies in a whole image; one last byte belongs to no area.
AreaOffset(c) ==
    CASE c = BIOS_FMAP_GBB       -> 0
      [] c = BIOS_FMAP_FW_MAIN_A -> BodySize
      [] c = BIOS_FMAP_VBLOCK_A  -> 2 * BodySize
      [] c = BIOS_FMAP_FW_MAIN_B -> 2 * BodySize + VblockFull
      [] c = BIOS_FMAP_VBLOCK_B  -> 3 * BodySize + VblockFull

ImageLen == 3 * BodySize + 2 * VblockFull + 1

\* The area header an FMAP declares for area c: not in the table, whole,
\* (for a VBLOCK) too short for the new chain, or reaching past the end of
\* the file (a truncated file).
AreaKinds(c) ==
    IF c \in Vblocks THEN {"absent", "whole", "short", "truncated"}
    ELSE IF c \in FwMains THEN {"absent", "whole", "truncated"}
    ELSE {"absent", "whole", "truncated"}

AreaHeader(c, kind) ==
    CASE kind = "absent" ->
            [found |-> FALSE, area_offset |-> U32Zero, area_size |-> U32Zero]
      [] kind = "whole" ->
            [found |-> TRUE, area_offset |-> U32(AreaOffset(c)),
             area_size |-> U32(IF c \in Vblocks THEN VblockFull ELSE BodySize)]
      [] kind = "short" ->
            [found |-> TRUE, area_offset |-> U32(AreaOffset(c)),
             area_size |-> U32(VblockShort)]
      [] kind = "truncated" ->
            [found |-> TRUE, area_offset |-> U32(AreaOffset(c)),
             area_size |-> U32(ImageLen + 1)]

Fmaps ==
    {[c \in Components |-> AreaHeader(c, k[c])] :
        k \in {f \in [Components -> {"absent", "whole", "short",
                                     "truncated"}] :
                  \A c \in Components : f[c] \in AreaKinds(c)}}

\* fmap_find_by_name followed by fmap_limit_area(ah, len): ah points into
\* the mapped file, so the table itself is what is clamped.
LimitInTable(fm, c, len) ==
    LET ah == FmapLimitArea([area_offset |-> fm[c].area_offset,
                             area_size |-> fm[c].area_size], len)
    IN  [fm EXCEPT ![c].area_offset = ah.area_offset,
                   ![c].area_size = ah.area_size]

\* struct bios_area_s after "struct bios_state_s state = {0}".
ZeroArea ==
    [offset |-> U32Zero, buf |-> "NULL", len |-> U32Zero, is_valid |-> FALSE,
     fw_size |-> U32Zero, metadata_hash |-> FALSE, flags |-> 0, version |-> 0]

ZeroState == [c \in Components |-> ZeroArea]

\* The values the caller may give for --flags and --version, the values an
\* existing preamble carries, all different from the defaults 0 and 1.
OptionFlags == 9

OptionVersion == 5

OldFlags == 7

OldVersion == 3

SignOptions ==
    [flags_specified : BOOLEAN, version_specified : BOOLEAN,
     loemid : BOOLEAN, flags : {OptionFlags}, version : {OptionVersion},
     keyblock_size : {U32(KeyblockSize)}]

NoSignOption ==
    [flags_specified |-> FALSE, version_specified |-> FALSE,
     loemid |-> FALSE, flags |-> 0, version |-> 0,
     keyblock_size |-> U32Zero]

\* --------------------------------------------------------- prepare_slot

\* sizeof(struct vb2_fw_preamble): the preamble without its key and
\* signature data, in the scale of this layout.
SizeofFwPreamble == PreambleSize - 1

\* What the vboot library finds in the VBLOCK area as it is in the file:
\* the results of vb2_verify_keyblock_hash, vb2_packed_key_looks_ok,
\* vb2_unpack_key and vb2_verify_fw_preamble, and the fields read from the
\* keyblock and the preamble there.  The checks stop at the first failure,
\* so a chain is told by the one check it fails, if any: the results of
\* the checks after it are never asked for.  A keyblock verifies only if
\* it lies within the vlen bytes it is given.
ChainFailures == {"keyblock", "public_key", "data_key", "preamble", "none"}

ExistingChain(failure, ks, ds) ==
    [keyblock_hash_ok |-> failure # "keyblock",
     data_key_ok |-> failure # "public_key",
     unpack_ok |-> failure # "data_key",
     preamble_ok |-> failure # "preamble",
     keyblock_size |-> ks, flags |-> OldFlags,
     firmware_version |-> OldVersion, data_size |-> ds]

ExistingChains(vlen) ==
    {ch \in {ExistingChain(f, ks, ds) :
                f \in ChainFailures, ks \in {U32(KeyblockSize), vlen},
                ds \in {U32(1), U32(BodySize + 1)}} :
        ch.keyblock_hash_ok =>
            (GtU32(ch.keyblock_size, U32Zero) /\ LeU32(ch.keyblock_size, vlen))}

\* Lines 452-501 with the fit test of lines 471-476 left out.
ChainStageNoFitTest(ch, vlen, fw) ==
    IF ~ch.keyblock_hash_ok THEN "keyblock"
    ELSE IF ~ch.data_key_ok THEN "public_key"
    ELSE IF ~ch.unpack_ok THEN "data_key"
    ELSE IF ~ch.preamble_ok THEN "preamble"
    ELSE IF fw.fw_size = U32Zero /\ GtU32(ch.data_size, fw.len)
    THEN "larger"
    ELSE "valid"

\* Lines 452-501: the checks of the existing chain, in order; the name of
\* the first one that fails, or "valid".
ChainStage(ch, vlen, fw) ==
    IF ~ch.keyblock_hash_ok THEN "keyblock"
    ELSE IF ~ch.data_key_ok THEN "public_key"
    ELSE IF ~ch.unpack_ok THEN "data_key"
    ELSE IF Nat32(ch.keyblock_size) + SizeofFwPreamble > Nat32(vlen)
    THEN "no_fit"
    ELSE IF ~ch.preamble_ok THEN "preamble"
    ELSE IF fw.fw_size = U32Zero /\ GtU32(ch.data_size, fw.len)
    THEN "larger"
    ELSE "valid"

\* The stages at which the preamble at buf + keyblock_size has been read.
PreambleRead == {"preamble", "larger", "valid"}

\* Lines 504-509 with the test of keyblock_valid left out: the flags of
\* the existing preamble are taken whenever none are specified.
SlotFlagsInherited(so, keyblock_valid, ch) ==
    IF so.flags_specified THEN so.flags ELSE ch.flags

\* Lines 504-518: the flags and the version of the new preamble.
SlotFlags(so, keyblock_valid, ch) ==
    IF so.flags_specified THEN so.flags
    ELSE IF keyblock_valid THEN ch.flags
    ELSE 0

SlotVersion(so, keyblock_valid, ch) ==
    IF so.version_specified THEN so.version
    ELSE IF keyblock_valid THEN ch.firmware_version
    ELSE 1

\* Lines 429-437: the length of the body from the explicit length, or else
\* from the FW_MAIN area.
BodyLen(fw_size, area_size) ==
    IF fw_size # U32Zero THEN fw_size ELSE area_size

\* Lines 489-499 with the test of fw_size left out: the body size of a
\* valid existing preamble is taken whatever the explicit length.
BodyLenFromChainAlways(keyblock_valid, fw_size, data_size, cur) ==
    IF keyblock_valid THEN data_size ELSE cur

\* Lines 489-499: with no explicit length, the body size that the valid
\* existing preamble declares becomes the length.
BodyLenFromChain(keyblock_valid, fw_size, data_size, cur) ==
    IF keyblock_valid /\ fw_size = U32Zero THEN data_size ELSE cur

\* Line 426 left out: no explicit length is held against the area.
FwSizeNeverIncorrect(fw_size, area_size) == FALSE

\* Line 426: state->area[fw_c].fw_size > ah->area_size.
FwSizeIncorrect(fw_size, area_size) == GtU32(fw_size, area_size)

\* prepare_slot(buf, len, fw_c, vblock_c, state): the return value, the
\* FMAP table and the state afterwards, the messages (the one about the
\* existing chain apart, in chain_log), and what was done, in order.
\* ch is drawn for the VBLOCK area by the caller (ChainFor).
PrepareSlot(fm, st, len, fw_c, vblock_c, so, ch) ==
    IF ~fm[fw_c].found
    THEN [retval |-> 1, fmap |-> fm, state |-> st,
          log |-> {<<"ERROR", "not found", fw_c>>}, chain_log |-> {},
          events |-> <<>>]
    ELSE
    LET fm1 == LimitInTable(fm, fw_c, len)
        ahf == fm1[fw_c]
        st1 == [st EXCEPT ![fw_c].buf = ahf.area_offset,
                          ![fw_c].is_valid = TRUE]
        ev1 == <<<<"limit", fw_c>>>>
    IN
    IF FwSizeIncorrect(st1[fw_c].fw_size, ahf.area_size)
    THEN [retval |-> 1, fmap |-> fm1, state |-> st1,
          log |-> {<<"ERROR", "size incorrect", fw_c>>}, chain_log |-> {},
          events |-> ev1]
    ELSE
    LET st2 == [st1 EXCEPT ![fw_c].len =
                    BodyLen(st1[fw_c].fw_size, ahf.area_size)]
        log2 == IF st1[fw_c].fw_size = U32Zero /\ ~st1[fw_c].metadata_hash
                THEN {<<"WARN", "no CBFS, signing entire area", fw_c>>}
                ELSE {}
    IN
    IF ~fm1[vblock_c].found
    THEN [retval |-> 1, fmap |-> fm1, state |-> st2,
          log |-> log2 \cup {<<"ERROR", "not found", vblock_c>>},
          chain_log |-> {}, events |-> ev1]
    ELSE
    LET fm2 == LimitInTable(fm1, vblock_c, len)
        ahv == fm2[vblock_c]
        st3 == [st2 EXCEPT ![vblock_c].buf = ahv.area_offset,
                           ![vblock_c].len = ahv.area_size]
        stage == ChainStage(ch, ahv.area_size, st3[fw_c])
        keyblock_valid == stage = "valid"
        st4 == [st3 EXCEPT ![fw_c].len =
                    BodyLenFromChain(keyblock_valid, st3[fw_c].fw_size,
                                     ch.data_size, @),
                  ![vblock_c].flags = SlotFlags(so, keyblock_valid, ch),
                  ![vblock_c].version = SlotVersion(so, keyblock_valid, ch),
                  ![vblock_c].is_valid = TRUE]
    IN  [retval |-> 0, fmap |-> fm2, state |-> st4, log |-> log2,
         chain_log |-> IF keyblock_valid THEN {}
                       ELSE {<<IF stage \in {"no_fit", "larger"}
                               THEN "ERROR" ELSE "WARN", stage, vblock_c>>},
         events |-> ev1 \o <<<<"limit", vblock_c>>,
                             <<"verify_keyblock_hash", vblock_c>>>>
                        \o (IF stage \in PreambleRead
                            THEN <<<<"read_preamble", vblock_c>>>>
                            ELSE <<>>)
                        \o <<<<"chain", vblock_c, stage>>>>]

\* The existing chains prepare_slot may find for vblock_c: those of the
\* area as clamped, or none to look at when the slot is left early.
ChainFor(fm, len, fw_c, vblock_c) ==
    IF fm[fw_c].found /\ fm[vblock_c].found
    THEN ExistingChains(LimitInTable(fm, vblock_c, len)[vblock_c].area_size)
    ELSE ExistingChains(U32Zero)

\* One call of prepare_slot on a fresh state: the slot, the FMAP (the
\* areas of the other slot and the GBB whole), what
\* image_check_and_prepare_cbfs left in the state, the sign options and
\* the chain in the VBLOCK area.
PrepSlots ==
    {<<BIOS_FMAP_FW_MAIN_A, BIOS_FMAP_VBLOCK_A>>,
     <<BIOS_FMAP_FW_MAIN_B, BIOS_FMAP_VBLOCK_B>>}

PrepInit ==
    \E slot \in PrepSlots, fm \in Fmaps,
       fw_size \in {U32Zero, U32(1), U32(BodySize + 1)},
       mh \in BOOLEAN, so \in SignOptions :
        /\ \A c \in Components \ {slot[1], slot[2]} :
               fm[c] = AreaHeader(c, "whole")
        /\ \E ch \in ChainFor(fm, U32(ImageLen), slot[1], slot[2]) :
               prep = [pc |-> "call", fw_c |-> slot[1], vblock_c |-> slot[2],
                       fmap |-> fm,
                       state |-> [ZeroState EXCEPT
                                     ![slot[1]].fw_size = fw_size,
                                     ![slot[1]].metadata_hash = mh],
                       sign_option |-> so, chain |-> ch]

PrepIdle == prep = [pc |-> "off"]

PrepCall ==
    /\ prep.pc = "call"
    /\ prep' = [pc |-> "done", in |-> prep,
                r |-> PrepareSlot(prep.fmap, prep.state, U32(ImageLen),
                                  prep.fw_c, prep.vblock_c, prep.sign_option,
                                  prep.chain)]
    /\ PrepOnly

\* ------------------------------------------------------------ the runs

\* uint32_t len of the mapped file.
buf_len == U32(ImageLen)

\* The state when ft_show_bios or ft_sign_bios is entered: any FMAP over a
\* file of ImageLen bytes, and for a signing run any sign_option and either
\* answer of image_uses_cbfs_integration (line 586).  The signing run
\* never looks the GBB up, so its images all have a whole one.
BiosInit ==
    /\ op \in {"show", "sign"}
    /\ pc = (IF op = "sign" THEN "cbfs_a" ELSE "show")
    /\ state_c = 0
    /\ buf = OrigBytes(ImageLen)
    /\ fmap \in (IF op = "sign"
                 THEN {fm \in Fmaps : fm[BIOS_FMAP_GBB] =
                          AreaHeader(BIOS_FMAP_GBB, "whole")}
                 ELSE Fmaps)
    /\ orig = [buf |-> buf, fmap |-> fmap]
    /\ state = ZeroState
    /\ sign_option \in (IF op = "sign" THEN SignOptions ELSE {NoSignOption})
    /\ uses_cbfs_integration \in (IF op = "sign" THEN BOOLEAN ELSE {FALSE})
    /\ retval = 0
    /\ log = {}
    /\ loem = {}
    /\ trace = <<>>

BiosIdle ==
    /\ op = "off" /\ pc = "off" /\ state_c = 0 /\ buf = <<>> /\ fmap = <<>>
    /\ orig = <<>> /\ state = <<>> /\ sign_option = NoSignOption
    /\ uses_cbfs_integration = FALSE /\ retval = 0 /\ log = {} /\ loem = {}
    /\ trace = <<>>

\* What cbfstool_truncate may leave in fw_size for area fw_c: nothing (it
\* failed, as it must for an area the FMAP does not have) or the size of
\* the CBFS it found.
TruncateResults(fw_c) ==
    IF fmap[fw_c].found THEN {U32Zero, U32(1)} ELSE {U32Zero}

\* Whether cbfstool_get_metadata_hash may find a hash in area fw_c.
MetadataHashResults(fw_c) ==
    IF fmap[fw_c].found THEN BOOLEAN ELSE {FALSE}

\* image_check_and_prepare_cbfs with the FATAL of line 560 left out: the
\* missing hash is passed over.
CbfsOutcomeNoFatal(fw_c, found) ==
    [fatal |-> FALSE, metadata_hash |-> found]

\* image_check_and_prepare_cbfs in CBFS integration mode, lines 557-565.
CbfsOutcome(fw_c, found) ==
    [fatal |-> ~found, metadata_hash |-> found]

\* image_check_and_prepare_cbfs(file, fw_c, uses_cbfs_integration, state),
\* called at position here; FATAL ends the process.
ImageCheckAndPrepareCbfs(fw_c, here, next) ==
    /\ pc = here
    /\ IF ~uses_cbfs_integration
       THEN \E size \in TruncateResults(fw_c) :
               /\ state' = [state EXCEPT ![fw_c].fw_size = size]
               /\ pc' = next
               /\ log' = log
       ELSE \E found \in MetadataHashResults(fw_c) :
               LET r == CbfsOutcome(fw_c, found)
               IN  /\ state' = [state EXCEPT
                                   ![fw_c].metadata_hash = r.metadata_hash]
                   /\ pc' = (IF r.fatal THEN "fatal" ELSE next)
                   /\ log' = (IF r.fatal
                              THEN log \cup {<<"FATAL", "no metadata hash",
                                               fw_c>>}
                              ELSE log)
    /\ UNCHANGED <<op, state_c, buf, fmap, orig, sign_option,
                   uses_cbfs_integration, retval, loem, trace>>
    /\ BiosOnly

\* futil_open_and_map_file, lines 593-595.
MapFile ==
    /\ pc = "map"
    /\ \E ok \in BOOLEAN :
          /\ pc' = (IF ok THEN "prepare_a" ELSE "done")
          /\ retval' = (IF ok THEN retval ELSE 1)
          /\ log' = (IF ok THEN log
                     ELSE log \cup {<<"ERROR", "cannot map", "">>})
    /\ UNCHANGED <<op, state_c, buf, fmap, orig, state, sign_option,
                   uses_cbfs_integration, loem, trace>>
    /\ BiosOnly

\* Lines 598-605 with the test of line 604 never true: a failure of slot B
\* is passed over whatever the state of FW_MAIN_B.
GotoDoneForSlotAOnly(fw_c, slot_retval, fw_is_valid) ==
    fw_c = BIOS_FMAP_FW_MAIN_A /\ slot_retval # 0

\* Lines 598-605: whether ft_sign_bios goes to done: after any failure of
\* slot A, and after a failure of slot B that left FW_MAIN_B marked valid.
GotoDone(fw_c, slot_retval, fw_is_valid) ==
    IF fw_c = BIOS_FMAP_FW_MAIN_A
    THEN slot_retval # 0
    ELSE slot_retval # 0 /\ fw_is_valid

\* Lines 597-605: prepare_slot for slot A, then for slot B.
PrepareSlotStep(fw_c, vblock_c, here, next) ==
    /\ pc = here
    /\ \E ch \in ChainFor(fmap, buf_len, fw_c, vblock_c) :
          LET r == PrepareSlot(fmap, state, buf_len, fw_c, vblock_c,
                               sign_option, ch)
              stop == GotoDone(fw_c, r.retval, r.state[fw_c].is_valid)
          IN  /\ fmap' = r.fmap
              /\ state' = r.state
              /\ retval' = r.retval
              /\ log' = log \cup r.log
              /\ pc' = (IF stop THEN "done" ELSE next)
    /\ UNCHANGED <<op, state_c, buf, orig, sign_option, uses_cbfs_integration,
                   loem, trace>>
    /\ BiosOnly

\* check_slot_after_prepare for both slots, lines 607-610.
NeedsHash(fw_c) ==
    /\ state[fw_c].is_valid
    /\ uses_cbfs_integration
    /\ ~state[fw_c].metadata_hash

CheckSlotsAfterPrepare ==
    /\ pc = "check"
    /\ LET bad == {fw_c \in FwMains : NeedsHash(fw_c)}
       IN  /\ pc' = (IF bad # {} THEN "fatal" ELSE "sign")
           /\ log' = log \cup {<<"FATAL", "no metadata hash", fw_c>> :
                                  fw_c \in bad}
    /\ UNCHANGED <<op, state_c, buf, fmap, orig, state, sign_option,
                   uses_cbfs_integration, retval, loem, trace>>
    /\ BiosOnly

\* The struct bios_area_s of a VBLOCK and of a firmware body as
\* write_new_preamble reads them.
VblockArea(vblock_c) ==
    [offset |-> state[vblock_c].buf, len |-> state[vblock_c].len]

FwBody(fw_c) ==
    [metadata_hash |-> state[fw_c].metadata_hash, len |-> state[fw_c].len]

\* What vb2_calculate_signature / vb2_create_signature_from_hash and
\* vb2_create_fw_preamble may give write_new_preamble.
Creations == {"ok", "no_signature", "no_preamble"}

\* write_loem(ab, vblock): fwrite of a single item of vblock->len bytes
\* fails when the length is 0.
WriteLoemResults(vblock_c) ==
    IF state[vblock_c].len = U32Zero THEN {1} ELSE {0, 1}

\* sign_bios_at_end(state), lines 365-397.
SignBiosAtEnd ==
    /\ pc = "sign"
    /\ IF ~state[BIOS_FMAP_VBLOCK_A].is_valid
          \/ ~state[BIOS_FMAP_FW_MAIN_A].is_valid
       THEN /\ retval' = 1
            /\ pc' = "done"
            /\ log' = log \cup {<<"ERROR", "not changing anything", "">>}
            /\ UNCHANGED <<buf, loem, trace>>
       ELSE \E ca \in Creations, cb \in Creations,
               la \in WriteLoemResults(BIOS_FMAP_VBLOCK_A),
               lb \in WriteLoemResults(BIOS_FMAP_VBLOCK_B) :
            LET ra == WriteNewPreamble(buf, VblockArea(BIOS_FMAP_VBLOCK_A),
                          FwBody(BIOS_FMAP_FW_MAIN_A),
                          sign_option.keyblock_size, U32(PreambleSize),
                          ca # "no_signature", ca # "no_preamble")
                doB == /\ state[BIOS_FMAP_VBLOCK_B].is_valid
                       /\ state[BIOS_FMAP_FW_MAIN_B].is_valid
                rb == IF doB
                      THEN WriteNewPreamble(ra.bytes,
                               VblockArea(BIOS_FMAP_VBLOCK_B),
                               FwBody(BIOS_FMAP_FW_MAIN_B),
                               sign_option.keyblock_size, U32(PreambleSize),
                               cb # "no_signature", cb # "no_preamble")
                      ELSE [retval |-> 0, bytes |-> ra.bytes,
                            overrun |-> FALSE, body_sig |-> NoBodySignature]
                loemB == sign_option.loemid
                         /\ state[BIOS_FMAP_VBLOCK_B].is_valid
                rl == (IF sign_option.loemid THEN la ELSE 0)
                      + (IF loemB THEN lb ELSE 0)
            IN  /\ buf' = rb.bytes
                /\ retval' = (IF ra.retval + rb.retval + rl > 0 THEN 1 ELSE 0)
                /\ log' = (IF doB THEN log
                           ELSE log \cup {<<"INFO", "signing only",
                                            BIOS_FMAP_FW_MAIN_A>>})
                /\ loem' = (IF sign_option.loemid THEN {<<"A", la>>} ELSE {})
                           \cup (IF loemB THEN {<<"B", lb>>} ELSE {})
                /\ trace' = trace
                     \o <<<<"write_new_preamble", BIOS_FMAP_VBLOCK_A,
                            BIOS_FMAP_FW_MAIN_A, ra.retval, ra.body_sig>>>>
                     \o (IF doB
                         THEN <<<<"write_new_preamble", BIOS_FMAP_VBLOCK_B,
                                  BIOS_FMAP_FW_MAIN_B, rb.retval,
                                  rb.body_sig>>>>
                         ELSE <<>>)
                /\ \E end \in (IF ra.overrun \/ rb.overrun
                               THEN {"crashed", "done"} ELSE {"done"}) :
                       pc' = end
    /\ UNCHANGED <<op, state_c, fmap, orig, state, sign_option,
                   uses_cbfs_integration>>
    /\ BiosOnly

\* ------------------------------------------------------- ft_show_bios

\* What futil_valid_gbb_header and the two vb2_packed_key_looks_ok calls
\* of show_gbb_buf may answer.
GbbChecks == [header_ok : BOOLEAN, rootkey_ok : BOOLEAN, recovery_ok : BOOLEAN]

\* show_gbb_buf(name, buf, len, data), lines 94-177: the return value and
\* whether the GBB area is marked valid.
ShowGbbBuf(area_len, g) ==
    IF area_len = U32Zero THEN [retval |-> 1, is_valid |-> FALSE]
    ELSE IF ~g.header_ok THEN [retval |-> 1, is_valid |-> FALSE]
    ELSE IF g.rootkey_ok /\ g.recovery_ok
    THEN [retval |-> 0, is_valid |-> TRUE]
    ELSE [retval |-> 1, is_valid |-> FALSE]

\* fmap_show_fw_main(name, buf, len, data), lines 202-220.
FmapShowFwMain(area_len) ==
    IF area_len = U32Zero THEN [retval |-> 1, is_valid |-> FALSE]
    ELSE [retval |-> 0, is_valid |-> TRUE]

\* show_fw_preamble_buf: the slot verifier.  It is named in fmap_show_fn[]
\* but defined elsewhere; by the slot verifier's description it reports a
\* missing (empty) area as untrusted and marks a trusted chain valid.
ShowFwPreambleBuf(area_len, trusted) ==
    IF area_len = U32Zero \/ ~trusted THEN [retval |-> 1, is_valid |-> FALSE]
    ELSE [retval |-> 0, is_valid |-> TRUE]

\* fmap_show_fn[c], lines 223-230.
FmapShowFn(name, area_len, g, trusted) ==
    IF name = BIOS_FMAP_GBB THEN ShowGbbBuf(area_len, g)
    ELSE IF name \in FwMains THEN FmapShowFwMain(area_len)
    ELSE ShowFwPreambleBuf(area_len, trusted)

\* Lines 270-273 with = for +=: the result of the last area shown.
RetvalOfLast(sum, shown) == shown

\* Lines 270-273: retval += fmap_show_fn[c](...).
RetvalAdd(sum, shown) == sum + shown

\* One pass of the loop of ft_show_bios, lines 249-276.
ShowComponent ==
    /\ pc = "show"
    /\ state_c < NUM_BIOS_COMPONENTS
    /\ LET name == fmap_name[state_c + 1]
       IN  IF fmap[name].found
           THEN \E g \in GbbChecks, trusted \in BOOLEAN :
                LET fm == LimitInTable(fmap, name, buf_len)
                    ah == fm[name]
                    r  == FmapShowFn(name, ah.area_size, g, trusted)
                IN  /\ fmap' = fm
                    /\ state' = [state EXCEPT
                           ![name].offset = ah.area_offset,
                           ![name].buf = ah.area_offset,
                           ![name].len = ah.area_size,
                           ![name].is_valid = r.is_valid]
                    /\ retval' = RetvalAdd(retval, r.retval)
                    /\ trace' = trace \o <<<<"show", name, r.retval>>>>
           ELSE UNCHANGED <<fmap, state, retval, trace>>
    /\ state_c' = state_c + 1
    /\ UNCHANGED <<op, pc, buf, orig, sign_option, uses_cbfs_integration,
                   log, loem>>
    /\ BiosOnly

\* Lines 278-279: the file is unmapped and retval returned.
ShowReturn ==
    /\ pc = "show"
    /\ state_c = NUM_BIOS_COMPONENTS
    /\ pc' = "done"
    /\ UNCHANGED <<op, state_c, buf, fmap, orig, state, sign_option,
                   uses_cbfs_integration, retval, log, loem, trace>>
    /\ BiosOnly

\* ------------------------------------------- ft_recognize_bios_image

FILE_TYPE_UNKNOWN == "FILE_TYPE_UNKNOWN"

FILE_TYPE_BIOS_IMAGE == "FILE_TYPE_BIOS_IMAGE"

\* ft_recognize_bios_image asking for all five areas.
FtRecognizeAllFive(fmap_found, fm) ==
    IF fmap_found /\ \A c \in Components : fm[c].found
    THEN FILE_TYPE_BIOS_IMAGE
    ELSE FILE_TYPE_UNKNOWN

\* ft_recognize_bios_image(buf, len), lines 618-637: fmap_found is whether
\* fmap_find finds an FMAP in the buffer, fm the areas it names.
FtRecognizeBiosImage(fmap_found, fm) ==
    IF ~fmap_found THEN FILE_TYPE_UNKNOWN
    ELSE LET gbb_slot == fm[BIOS_FMAP_GBB].found
             fw_slot_a == fm[BIOS_FMAP_FW_MAIN_A].found
             vblock_slot_a == fm[BIOS_FMAP_VBLOCK_A].found
         IN  IF gbb_slot /\ fw_slot_a /\ vblock_slot_a
             THEN FILE_TYPE_BIOS_IMAGE
             ELSE FILE_TYPE_UNKNOWN

\* One call: the buffer has an FMAP or has none; without one there are no
\* areas to name.
RecInit ==
    \E fmap_found \in BOOLEAN, fm \in Fmaps :
        /\ ~fmap_found => fm = [c \in Components |-> AreaHeader(c, "absent")]
        /\ rec = [pc |-> "call", fmap_found |-> fmap_found, fmap |-> fm]

RecIdle == rec = [pc |-> "off"]

RecCall ==
    /\ rec.pc = "call"
    /\ rec' = [pc |-> "done", in |-> rec,
               r |-> FtRecognizeBiosImage(rec.fmap_found, rec.fmap)]
    /\ RecOnly

\* ------------------------------------------------------- kernel_utility

UINT16_MAX == 2^16 - 1

\* A file option of the command line is in options.files when it was given
\* a (non-empty) name.
FileOptions ==
    {"firmware_key", "firmware_key_pub", "kernel_key", "kernel_key_pub",
     "subkey_in", "in", "out", "config", "bootloader", "vmlinuz"}

\* Lines 456 and 475 with the test against UINT16_MAX left out.
VersionNotPositive(version) == version <= 0

\* Lines 456 and 475: the test of kernel_key_version_ and kernel_version_.
VersionOutOfRange(version) == version <= 0 \/ version > UINT16_MAX

\* KernelUtility::CheckOptions, lines 414-498.
CheckOptions(o) ==
    /\ \/ (o.is_describe /\ ~o.is_generate /\ ~o.is_verify)
       \/ (~o.is_describe /\ o.is_generate /\ ~o.is_verify)
       \/ (~o.is_describe /\ ~o.is_generate /\ o.is_verify)
    /\ o.is_describe => "in" \in o.files
    /\ o.is_verify => ("firmware_key_pub" \in o.files /\ "in" \in o.files)
    /\ o.is_generate =>
        /\ "subkey_in" \notin o.files =>
            /\ "firmware_key" \in o.files
            /\ "kernel_key_pub" \in o.files
            /\ ~VersionOutOfRange(o.kernel_key_version)
            /\ ~(o.firmware_sign_algorithm < 0
                 \/ o.firmware_sign_algorithm >= kNumAlgorithms)
            /\ ~(o.kernel_sign_algorithm < 0
                 \/ o.kernel_sign_algorithm >= kNumAlgorithms)
        /\ "kernel_key" \in o.files
        /\ ~VersionOutOfRange(o.kernel_version)
        /\ "out" \in o.files
        /\ "config" \in o.files
        /\ "bootloader" \in o.files
        /\ "vmlinuz" \in o.files

\* The lengths of a signature and of a pre-processed key by algorithm
\* (siglen_map[], RSAProcessedKeySize), in units of one header field.
SigLen(alg) == 1 + (alg % 2)

KeyLen(alg) == 1 + (alg % 2)

\* GetKernelHeaderLen(image): the five fixed fields, the key, the checksum.
GetKernelHeaderLen(kernel_sign_algorithm) ==
    5 + KeyLen(kernel_sign_algorithm) + 1

\* CalculateKernelHeaderChecksum: a digest of the header fields and the
\* key; different contents give different digests.
HeaderChecksum(hv, hl, fa, ka, kv, key) == <<hv, hl, fa, ka, kv, key>>

\* StatefulMemcpy(st, dst, n): nothing is copied once the source has been
\* overrun, or when fewer than n units are left, which sets overrun.
StatefulMemcpy(st, n) ==
    IF st.overrun THEN [st |-> st, copied |-> FALSE, data |-> <<>>]
    ELSE IF n > Len(st.remaining)
    THEN [st |-> [st EXCEPT !.overrun = TRUE], copied |-> FALSE,
          data |-> <<>>]
    ELSE [st |-> [remaining |-> SubSeq(st.remaining, n + 1,
                                       Len(st.remaining)),
                  overrun |-> FALSE],
          copied |-> TRUE, data |-> SubSeq(st.remaining, 1, n)]

\* A subkey header file: a well-formed one for the algorithms fa and ka,
\* with its header_len off by hl_off, a checksum that matches or not, and
\* cut short or padded by delta units.
KeyUnits(n) == [i \in 1..n |-> 0]

SubkeyFile(fa, ka, kv, hl_off, cks_ok, delta) ==
    LET hl   == GetKernelHeaderLen(ka) + hl_off
        key  == KeyUnits(KeyLen(ka))
        cks  == HeaderChecksum(IF cks_ok THEN 1 ELSE 2, hl, fa, ka, kv, key)
        full == <<1, hl, fa, ka, kv>> \o key \o <<cks>>
                    \o KeyUnits(SigLen(fa))
    IN  IF delta < 0
        THEN SubSeq(full, 1, IF Len(full) + delta > 0
                             THEN Len(full) + delta ELSE 0)
        ELSE full \o KeyUnits(delta)

SubkeyFiles ==
    {SubkeyFile(fa, ka, 1, hl_off, cks_ok, delta) :
        fa \in {0, kNumAlgorithms - 1, kNumAlgorithms},
        ka \in {0, kNumAlgorithms - 1, kNumAlgorithms},
        hl_off \in {0, 1}, cks_ok \in BOOLEAN, delta \in {-2, -1, 0, 1}}
    \cup {SubSeq(SubkeyFile(0, 0, 1, 0, TRUE, 0), 1, n) : n \in 1..MaxStub}

\* What a field that StatefulMemcpy did not fill may hold: the KernelImage
\* is not cleared when it is allocated.
Garbage ==
    [firmware_sign_algorithm : {0, kNumAlgorithms},
     kernel_sign_algorithm : {0, kNumAlgorithms},
     header_len : {GetKernelHeaderLen(0), 0},
     checksum_equal : BOOLEAN]

\* The fields of a file that holds all of them are all filled.
GarbageFor(file) ==
    IF Len(file) >= 5 /\ Len(file) >= GetKernelHeaderLen(file[4])
    THEN {[firmware_sign_algorithm |-> 0, kernel_sign_algorithm |-> 0,
           header_len |-> 0, checksum_equal |-> FALSE]}
    ELSE Garbage

\* Lines 355-356 with the comparison left out.
ChecksumDiffersNever(calculated, stored) == FALSE

\* SafeMemcmp(header_checksum, image_->header_checksum, ...) != 0.
ChecksumDiffers(calculated, stored) == calculated # stored

\* Line 368 with the test of remaining_len left out.
OverrunOnly(st) == st.overrun

\* Line 368: st.overrun || st.remaining_len != 0.
OverrunOrUnderrun(st) == st.overrun \/ Len(st.remaining) # 0

\* Lines 291-371, the branch of GenerateSignedImage for --subkey_in: the
\* value returned and the signature operations called.  NULL is false.
UseExistingSubkeyHeader(file, g) ==
    LET st0 == [remaining |-> file, overrun |-> FALSE]
        r1  == StatefulMemcpy(st0, 1)
        r2  == StatefulMemcpy(r1.st, 1)
        r3  == StatefulMemcpy(r2.st, 1)
        r4  == StatefulMemcpy(r3.st, 1)
        hv  == IF r1.copied THEN r1.data[1] ELSE 0
        hl  == IF r2.copied THEN r2.data[1] ELSE g.header_len
        fa  == IF r3.copied THEN r3.data[1] ELSE g.firmware_sign_algorithm
        ka  == IF r4.copied THEN r4.data[1] ELSE g.kernel_sign_algorithm
        parsed == [header_version |-> hv, header_len |-> hl,
                   firmware_sign_algorithm |-> fa,
                   kernel_sign_algorithm |-> ka]
    IN  IF fa >= kNumAlgorithms
        THEN [result |-> FALSE, stage |-> "firmware_sign_algorithm",
              image |-> parsed]
        ELSE IF ka >= kNumAlgorithms
        THEN [result |-> FALSE, stage |-> "kernel_sign_algorithm",
              image |-> parsed]
        ELSE IF GetKernelHeaderLen(ka) # hl
        THEN [result |-> FALSE, stage |-> "header_len", image |-> parsed]
        ELSE
        LET r5  == StatefulMemcpy(r4.st, 1)
            r6  == StatefulMemcpy(r5.st, KeyLen(ka))
            r7  == StatefulMemcpy(r6.st, 1)
            kv  == IF r5.copied THEN r5.data[1] ELSE 0
            key == IF r6.copied THEN r6.data ELSE KeyUnits(KeyLen(ka))
            calculated == HeaderChecksum(hv, hl, fa, ka, kv, key)
            stored == IF r7.copied THEN r7.data[1]
                      ELSE IF g.checksum_equal THEN calculated
                      ELSE HeaderChecksum(hv + 1, hl, fa, ka, kv, key)
        IN  IF ChecksumDiffers(calculated, stored)
            THEN [result |-> FALSE, stage |-> "header_checksum",
                  image |-> parsed]
            ELSE
            LET r8 == StatefulMemcpy(r7.st, SigLen(fa))
            IN  IF OverrunOrUnderrun(r8.st)
                THEN [result |-> FALSE, stage |-> "length", image |-> parsed]
                ELSE [result |-> TRUE, stage |-> "read", image |-> parsed]

\* The command lines of the runs: generate runs take every mix of the
\* numeric options, one file option is left out at most, or
\* --subkey_in and one other.
Versions == {0, 1, UINT16_MAX, UINT16_MAX + 1}

Algorithms == {-1, 0, kNumAlgorithms - 1, kNumAlgorithms}

CommandLines ==
    LET files == {FileOptions \ m : m \in {n \in SUBSET FileOptions :
                        \/ Cardinality(n) <= 1
                        \/ Cardinality(n) = 2 /\ "subkey_in" \in n}}
    IN  [is_describe : BOOLEAN, is_generate : {TRUE}, is_verify : BOOLEAN,
         files : files, kernel_key_version : Versions,
         kernel_version : Versions,
         firmware_sign_algorithm : Algorithms,
         kernel_sign_algorithm : Algorithms]
        \cup
        [is_describe : BOOLEAN, is_generate : {FALSE}, is_verify : BOOLEAN,
         files : files, kernel_key_version : {-1}, kernel_version : {-1},
         firmware_sign_algorithm : {-1}, kernel_sign_algorithm : {-1}]

\* The KernelUtility constructor, lines 33-45, and ParseCmdLineOptions.
KuInit ==
    /\ kpc = "main"
    /\ options \in CommandLines
    /\ image_ = <<>>
    /\ calls = <<>>
    /\ subkey_header_buf = <<>>
    /\ returned = "no"
    /\ exit_status = 0

KuIdle ==
    /\ kpc = "off"
    /\ options = <<>>
    /\ image_ = <<>>
    /\ calls = <<>>
    /\ subkey_header_buf = <<>>
    /\ returned = "no"
    /\ exit_status = 0

\* main, lines 502-518: the options are checked and the mode chosen.
KuMain ==
    /\ kpc = "main"
    /\ IF ~CheckOptions(options)
       THEN kpc' = "exit" /\ exit_status' = -1
       ELSE /\ kpc' = IF options.is_describe THEN "describe"
                      ELSE IF options.is_generate THEN "generate"
                      ELSE "verify"
            /\ UNCHANGED exit_status
    /\ UNCHANGED <<options, image_, calls, subkey_header_buf, returned>>
    /\ KuOnly

\* DescribeSignedImage, lines 253-260, and main's return 0.
KuDescribe ==
    /\ kpc = "describe"
    /\ \E read \in BOOLEAN :
          /\ image_' = IF read THEN [magic |-> TRUE] ELSE <<>>
          /\ calls' = IF read THEN <<"ReadKernelImage", "PrintKernelImage">>
                      ELSE <<"ReadKernelImage">>
    /\ kpc' = "exit"
    /\ exit_status' = 0
    /\ UNCHANGED <<options, subkey_header_buf, returned>>
    /\ KuOnly

\* An int stored in a uint16_t field.
Uint16(n) == n % (UINT16_MAX + 1)

\* Lines 373-391: the kernel preamble, the kernel blob, the signatures.
FillPreambleAndSign(img, cl, o, blob, signed) ==
    LET img1 == [kernel_version |-> Uint16(o.kernel_version)] @@ img
        cl1  == Append(cl, "GenerateKernelBlob")
    IN  IF ~blob
        THEN [result |-> FALSE, image |-> img1, calls |-> cl1]
        ELSE [result |-> signed,
              image |-> IF signed
                        THEN [kernel_data |-> TRUE, kernel_signature |-> TRUE]
                             @@ img1
                        ELSE [kernel_data |-> TRUE] @@ img1,
              calls |-> Append(cl1, "AddKernelSignature")]

\* Lines 268-290: the subkey header is made from the options.
MakeSubkeyHeader(o, key_read, key_signed) ==
    LET img0 == [magic |-> TRUE, header_version |-> 1,
                 firmware_sign_algorithm |-> Uint16(o.firmware_sign_algorithm),
                 kernel_sign_algorithm |-> Uint16(o.kernel_sign_algorithm)]
        img1 == [kernel_sign_key |-> TRUE,
                 kernel_key_version |-> Uint16(o.kernel_key_version),
                 header_len |->
                     GetKernelHeaderLen(Uint16(o.kernel_sign_algorithm)),
                 header_checksum |-> TRUE] @@ img0
    IN  IF ~key_read
        THEN [result |-> FALSE, image |-> img0, calls |-> <<>>]
        ELSE [result |-> key_signed,
              image |-> IF key_signed
                        THEN [kernel_key_signature |-> TRUE] @@ img1
                        ELSE img1,
              calls |-> <<"AddKernelKeySignature">>]

\* GenerateSignedImage, lines 262-392.
GenerateSignedImage(o, file, g, key_read, key_signed, blob, signed) ==
    IF "subkey_in" \notin o.files
    THEN LET h == MakeSubkeyHeader(o, key_read, key_signed)
         IN  IF ~h.result THEN h
             ELSE FillPreambleAndSign(h.image, h.calls, o, blob, signed)
    ELSE IF file = <<>>
    THEN [result |-> FALSE, image |-> [magic |-> TRUE], calls |-> <<>>]
    ELSE LET h == UseExistingSubkeyHeader(file, g)
         IN  [result |-> h.result, image |-> h.image @@ [magic |-> TRUE],
              calls |-> <<>>]

\* The subkey header files a run may be given, and what the fields they
\* leave unfilled may hold; the results of the key and blob operations.
GenerateInputs(o) ==
    IF "subkey_in" \in o.files
    THEN {[file |-> f, g |-> g, key_read |-> FALSE, key_signed |-> FALSE,
           blob |-> FALSE, signed |-> FALSE] :
              f \in {<<>>}, g \in GarbageFor(<<>>)}
         \cup UNION {{[file |-> f, g |-> g, key_read |-> FALSE,
                       key_signed |-> FALSE, blob |-> FALSE,
                       signed |-> FALSE] : g \in GarbageFor(f)} :
                        f \in SubkeyFiles}
    ELSE [file : {<<>>}, g : GarbageFor(SubkeyFile(0, 0, 1, 0, TRUE, 0)),
          key_read : BOOLEAN, key_signed : BOOLEAN, blob : BOOLEAN,
          signed : BOOLEAN]

\* main, lines 512-514: GenerateSignedImage and the return -1 on failure.
KuGenerate ==
    /\ kpc = "generate"
    /\ \E in \in GenerateInputs(options) :
          LET r == GenerateSignedImage(options, in.file, in.g, in.key_read,
                                       in.key_signed, in.blob, in.signed)
          IN  /\ image_' = r.image
              /\ calls' = r.calls
              /\ subkey_header_buf' = in.file
              /\ returned' = IF r.result THEN "true" ELSE "false"
              /\ IF r.result
                 THEN kpc' = "output" /\ UNCHANGED exit_status
                 ELSE kpc' = "exit" /\ exit_status' = -1
    /\ UNCHANGED options
    /\ KuOnly

\* OutputSignedImage, lines 242-250, and main's return 0.
KuOutput ==
    /\ kpc = "output"
    /\ calls' = Append(calls, "WriteKernelImage")
    /\ kpc' = "exit"
    /\ exit_status' = 0
    /\ UNCHANGED <<options, image_, subkey_header_buf, returned>>
    /\ KuOnly

\* VerifySignedImage, lines 394-412, and main's lines 516-523.
KuVerify ==
    /\ kpc = "verify"
    /\ \E key_read, image_read, verified \in BOOLEAN :
          /\ image_' = IF image_read THEN [magic |-> TRUE] ELSE <<>>
          /\ calls' = IF key_read /\ image_read
                      THEN <<"RSAPublicKeyFromFile", "ReadKernelImage",
                             "VerifyKernelImage">>
                      ELSE <<"RSAPublicKeyFromFile", "ReadKernelImage">>
          /\ returned' = IF key_read /\ image_read /\ verified
                          THEN "true" ELSE "false"
    /\ kpc' = "exit"
    /\ exit_status' = 0
    /\ UNCHANGED <<options, subkey_header_buf>>
    /\ KuOnly


\* ------------------------------------------------------- subprocess_run

TARGET_NULL == "TARGET_NULL"

TARGET_FD == "TARGET_FD"

TARGET_FILE == "TARGET_FILE"

TARGET_BUFFER == "TARGET_BUFFER"

TARGET_BUFFER_NULL_TERMINATED == "TARGET_BUFFER_NULL_TERMINATED"

\* The three targets of subprocess_run, in the order it handles them.
Streams == {"input", "output", "error"}

StreamOrder == <<"input", "output", "error">>

StreamIndex(s) == CHOOSE i \in 1..Len(StreamOrder) : StreamOrder[i] = s

\* The status exit(127) leaves, line 237.
ExecFailedStatus == 127

\* A struct subprocess_target: size and strlen(buf) matter for the buffer
\* types only; bytes_consumed is -1 until subprocess_run sets it; written
\* is the set of offsets from buf the parent has stored to, nul the offset
\* of the terminator it stored (-1: none).
Target(type, size, len) ==
    [type |-> type, size |-> size, strlen |-> len, bytes_consumed |-> -1,
     written |-> {}, nul |-> -1]

\* A NULL argument stands for subprocess_stdin, subprocess_stdout or
\* subprocess_stderr (lines 189-194), all of type TARGET_FD.
InputTargets ==
    {Target(TARGET_FD, 0, 0), Target(TARGET_NULL, 0, 0),
     Target(TARGET_BUFFER, 0, 0), Target(TARGET_BUFFER, PipeCap + 1, 0),
     Target(TARGET_BUFFER_NULL_TERMINATED, 0, 1)}

OutputTargets ==
    {Target(TARGET_FD, 0, 0)}
    \cup {Target(t, n, 0) :
             t \in {TARGET_BUFFER, TARGET_BUFFER_NULL_TERMINATED},
             n \in {0, 1, OutSize}}

ErrorTargets ==
    {Target(TARGET_FD, 0, 0), Target(TARGET_FILE, 0, 0),
     Target(TARGET_BUFFER, OutSize, 0),
     Target(TARGET_BUFFER_NULL_TERMINATED, OutSize, 0)}

IsBuffer(t) == t.type \in {TARGET_BUFFER, TARGET_BUFFER_NULL_TERMINATED}

\* A pipe: the bytes in it, the bytes read out of it so far, and which of
\* its ends the parent (p_) and the child (c_) hold open.
NoPipe ==
    [made |-> FALSE, bytes |-> 0, drained |-> 0,
     p_r |-> FALSE, p_w |-> FALSE, c_r |-> FALSE, c_w |-> FALSE]

\* init_target_private, lines 23-32: pipe(target->buffer._pipefd).
NewPipe ==
    [made |-> TRUE, bytes |-> 0, drained |-> 0,
     p_r |-> TRUE, p_w |-> TRUE, c_r |-> FALSE, c_w |-> FALSE]

\* fork: the child holds a copy of every descriptor of the parent.
Forked(p) == [p EXCEPT !.c_r = p.p_r, !.c_w = p.p_w]

\* connect_process_target, lines 61-76: the child closes the end of the
\* pipe it does not use.
Connected(s, p) ==
    IF s = "input" THEN [p EXCEPT !.c_w = FALSE] ELSE [p EXCEPT !.c_r = FALSE]

\* The end of a process closes every descriptor it holds.
ChildGone(pipes) ==
    [s \in Streams |-> [pipes[s] EXCEPT !.c_r = FALSE, !.c_w = FALSE]]

ParentGone(pipes) ==
    [s \in Streams |-> [pipes[s] EXCEPT !.p_r = FALSE, !.p_w = FALSE]]

HasReader(p) == p.p_r \/ p.c_r

HasWriter(p) == p.p_w \/ p.c_w

\* n bytes taken out of a pipe by a read.
PipeTake(p, n) == [p EXCEPT !.bytes = @ - n, !.drained = @ + n]

Min(a, b) == IF a < b THEN a ELSE b

\* The program the child executes, as the blocking calls it makes in
\* order: "read" reads its standard input to the end, "out" and "err"
\* write one byte to standard output or standard error; then it exits.
Rep(call, n) == [i \in 1..n |-> call]

Phase(p, reads, out_n, err_n) ==
    IF p = "read" THEN (IF reads THEN <<"read">> ELSE <<>>)
    ELSE IF p = "out" THEN Rep("out", out_n)
    ELSE Rep("err", err_n)

PhaseOrders ==
    {<<"read", "out", "err">>, <<"out", "read", "err">>,
     <<"err", "out", "read">>}

Programs ==
    {Phase(ord[1], r, no, ne) \o Phase(ord[2], r, no, ne)
       \o Phase(ord[3], r, no, ne) :
        ord \in PhaseOrders, r \in BOOLEAN, no \in {0, 1, PipeCap + 1},
        ne \in {0, PipeCap + 1}}

\* What waitpid may report of the child: WIFEXITED with WEXITSTATUS, or a
\* termination by a signal.
NoStatus == [exited |-> FALSE, code |-> -1]

Signaled == [exited |-> FALSE, code |-> 0]

Exited(code) == [exited |-> TRUE, code |-> code]

ProgramEnds == {Exited(0), Exited(1), Signaled}

\* process_target_input, lines 89-98: the bytes to write to the child.
BytesToWrite(t) ==
    IF t.type = TARGET_BUFFER THEN t.size
    ELSE IF t.type = TARGET_BUFFER_NULL_TERMINATED THEN t.strlen
    ELSE 0

\* process_target_output reading up to the whole size into either kind of
\* buffer.
BytesRemainingWholeBuffer(t) == t.size

\* process_target_output, lines 124-135: the bytes to read at most; a
\* null-terminated buffer keeps one byte for the terminator.
BytesRemaining(t) ==
    IF t.type = TARGET_BUFFER THEN t.size ELSE t.size - 1

\* One call of subprocess_run: the three targets and the program.
SpInit ==
    \E i \in InputTargets, o \in OutputTargets, e \in ErrorTargets,
       pr \in Programs :
        sp = [ppc |-> "init", cpc |-> "none",
              target |-> [s \in Streams |->
                            IF s = "input" THEN i
                            ELSE IF s = "output" THEN o ELSE e],
              pipe |-> [s \in Streams |-> NoPipe],
              bytes_to_write |-> 0, bytes_remaining |-> 0,
              prog |-> pr, exec_ok |-> FALSE, status |-> NoStatus,
              rv |-> 0, errs |-> {}]

SpIdle == sp = [ppc |-> "off"]

\* Lines 196-201: init_target_private for input, output and error; the
\* first pipe() that fails ends it.
InitTargets ==
    /\ sp.ppc = "init"
    /\ \E failed \in {"none"} \cup {s \in Streams : IsBuffer(sp.target[s])} :
          LET made(s) == /\ IsBuffer(sp.target[s])
                         /\ \/ failed = "none"
                            \/ StreamIndex(s) < StreamIndex(failed)
          IN  sp' = [sp EXCEPT
                        !.pipe = [s \in Streams |->
                                    IF made(s) THEN NewPipe ELSE NoPipe],
                        !.ppc = IF failed = "none" THEN "fork" ELSE "fail",
                        !.errs = IF failed = "none" THEN @
                                 ELSE @ \cup {"pipe"}]
    /\ SpOnly

\* Lines 203-204: fork.
Fork ==
    /\ sp.ppc = "fork"
    /\ \E ok \in BOOLEAN :
          sp' = IF ok
                THEN [sp EXCEPT
                         !.pipe = [s \in Streams |-> Forked(sp.pipe[s])],
                         !.cpc = "connect", !.ppc = "input"]
                ELSE [sp EXCEPT !.ppc = "fail", !.errs = @ \cup {"fork"}]
    /\ SpOnly

\* Lines 205-215 and 231-237, in the child: the three
\* connect_process_target calls and execvp; after a failure the child
\* exits with status 127.
ChildConnectExec ==
    /\ sp.cpc = "connect"
    /\ \E outcome \in {"ok", "connect", "exec"} :
          sp' = IF outcome = "ok"
                THEN [sp EXCEPT
                         !.pipe = [s \in Streams |->
                                     IF sp.pipe[s].made
                                     THEN Connected(s, sp.pipe[s])
                                     ELSE sp.pipe[s]],
                         !.cpc = "running", !.exec_ok = TRUE]
                ELSE [sp EXCEPT
                         !.pipe = ChildGone(sp.pipe),
                         !.cpc = "exited",
                         !.status = Exited(ExecFailedStatus),
                         !.errs = @ \cup {outcome}]
    /\ SpOnly

\* process_target_input, lines 89-101.
InputBegin ==
    /\ sp.ppc = "input"
    /\ sp' = IF ~IsBuffer(sp.target["input"])
             THEN [sp EXCEPT !.ppc = "output"]
             ELSE [sp EXCEPT
                      !.pipe["input"].p_r = FALSE,
                      !.bytes_to_write = BytesToWrite(sp.target["input"]),
                      !.ppc = "input_write"]
    /\ SpOnly

\* Lines 102-111: one write.  With no reader left the write fails with
\* EPIPE or SIGPIPE ends the parent; with the pipe full it blocks.
InputWrite ==
    /\ sp.ppc = "input_write"
    /\ sp.bytes_to_write > 0
    /\ LET p == sp.pipe["input"]
       IN  IF ~HasReader(p)
           THEN \E how \in {"EPIPE", "SIGPIPE"} :
                   sp' = IF how = "EPIPE"
                         THEN [sp EXCEPT !.pipe["input"].p_w = FALSE,
                                         !.ppc = "fail",
                                         !.errs = @ \cup {"io"}]
                         ELSE [sp EXCEPT !.pipe = ParentGone(sp.pipe),
                                         !.ppc = "killed"]
           ELSE /\ p.bytes < PipeCap
                /\ LET n == Min(PipeCap - p.bytes, sp.bytes_to_write)
                   IN  sp' = [sp EXCEPT !.pipe["input"].bytes = @ + n,
                                        !.bytes_to_write = @ - n]
    /\ SpOnly

\* Lines 102 and 113-115: everything is written, the pipe is closed.
InputCleanup ==
    /\ sp.ppc = "input_write"
    /\ sp.bytes_to_write = 0
    /\ sp' = [sp EXCEPT !.pipe["input"].p_w = FALSE, !.ppc = "output"]
    /\ SpOnly

\* Where subprocess_run goes after the target s.
AfterTarget(s) == IF s = "output" THEN "error" ELSE "waitpid"

ReadPc(s) == IF s = "output" THEN "output_read" ELSE "error_read"

EndPc(s) == IF s = "output" THEN "output_end" ELSE "error_end"

\* process_target_output, lines 124-139.
OutputBegin(s) ==
    /\ sp.ppc = s
    /\ LET t == sp.target[s]
       IN  sp' = IF ~IsBuffer(t)
                 THEN [sp EXCEPT !.ppc = AfterTarget(s)]
                 ELSE IF t.type = TARGET_BUFFER_NULL_TERMINATED /\ t.size = 0
                 THEN [sp EXCEPT !.ppc = "fail", !.errs = @ \cup {"io"}]
                 ELSE [sp EXCEPT
                          !.pipe[s].p_w = FALSE,
                          !.target[s].bytes_consumed = 0,
                          !.bytes_remaining = BytesRemaining(t),
                          !.ppc = IF BytesRemaining(t) = 0 THEN EndPc(s)
                                  ELSE ReadPc(s)]
    /\ SpOnly

\* Lines 139-152: one read that gives n bytes or the end of the file; with
\* the pipe empty and a writer left it blocks.
OutputRead(s) ==
    /\ sp.ppc = ReadPc(s)
    /\ LET p == sp.pipe[s]
           t == sp.target[s]
       IN  IF p.bytes > 0
           THEN \E n \in 1..Min(p.bytes, sp.bytes_remaining) :
                   sp' = [sp EXCEPT
                             !.pipe[s] = PipeTake(p, n),
                             !.target[s].written =
                                 @ \cup (t.bytes_consumed
                                           ..(t.bytes_consumed + n - 1)),
                             !.target[s].bytes_consumed = @ + n,
                             !.bytes_remaining = @ - n,
                             !.ppc = IF sp.bytes_remaining = n THEN EndPc(s)
                                     ELSE ReadPc(s)]
           ELSE /\ ~HasWriter(p)
                /\ sp' = [sp EXCEPT !.ppc = EndPc(s)]
    /\ SpOnly

\* Lines 144-147 and 157-159: a read fails.
OutputReadFails(s) ==
    /\ sp.ppc = ReadPc(s)
    /\ sp' = [sp EXCEPT !.pipe[s].p_r = FALSE, !.ppc = "fail",
                        !.errs = @ \cup {"io"}]
    /\ SpOnly

\* Lines 154-159: the terminator and the cleanup.
OutputEnd(s) ==
    /\ sp.ppc = EndPc(s)
    /\ LET t == sp.target[s]
       IN  sp' = IF t.type = TARGET_BUFFER_NULL_TERMINATED
                 THEN [sp EXCEPT
                          !.target[s].written = @ \cup {t.bytes_consumed},
                          !.target[s].nul = t.bytes_consumed,
                          !.pipe[s].p_r = FALSE,
                          !.ppc = AfterTarget(s)]
                 ELSE [sp EXCEPT !.pipe[s].p_r = FALSE,
                                 !.ppc = AfterTarget(s)]
    /\ SpOnly

\* Lines 225-229: waitpid returns once the child has ended.
Waitpid ==
    /\ sp.ppc = "waitpid"
    /\ sp.cpc = "exited"
    /\ sp' = IF sp.status.exited
             THEN [sp EXCEPT !.cpc = "reaped", !.ppc = "returned",
                             !.rv = sp.status.code]
             ELSE [sp EXCEPT !.cpc = "reaped", !.ppc = "fail",
                             !.errs = @ \cup {"signal"}]
    /\ SpOnly

\* Lines 225-226: waitpid fails.
WaitpidFails ==
    /\ sp.ppc = "waitpid"
    /\ sp' = [sp EXCEPT !.ppc = "fail", !.errs = @ \cup {"waitpid"}]
    /\ SpOnly

\* Lines 231-238 in the parent: perror and return -1.
Fail ==
    /\ sp.ppc = "fail"
    /\ sp' = [sp EXCEPT !.ppc = "returned", !.rv = -1]
    /\ SpOnly

\* The program reads its standard input to the end.
ChildRead ==
    /\ sp.cpc = "running"
    /\ sp.prog # <<>>
    /\ Head(sp.prog) = "read"
    /\ LET p == sp.pipe["input"]
       IN  IF ~IsBuffer(sp.target["input"])
           THEN sp' = [sp EXCEPT !.prog = Tail(@)]
           ELSE IF p.bytes > 0
           THEN sp' = [sp EXCEPT !.pipe["input"] = PipeTake(p, p.bytes)]
           ELSE /\ ~HasWriter(p)
                /\ sp' = [sp EXCEPT !.prog = Tail(@)]
    /\ SpOnly

\* The program writes a byte to its standard output or standard error:
\* with no reader left SIGPIPE ends it, with the pipe full it blocks.
ChildWrite(s, call) ==
    /\ sp.cpc = "running"
    /\ sp.prog # <<>>
    /\ Head(sp.prog) = call
    /\ LET p == sp.pipe[s]
       IN  IF ~IsBuffer(sp.target[s])
           THEN sp' = [sp EXCEPT !.prog = Tail(@)]
           ELSE IF ~HasReader(p)
           THEN sp' = [sp EXCEPT !.pipe = ChildGone(sp.pipe),
                                 !.cpc = "exited", !.status = Signaled]
           ELSE /\ p.bytes < PipeCap
                /\ sp' = [sp EXCEPT !.pipe[s].bytes = @ + 1,
                                    !.prog = Tail(@)]
    /\ SpOnly

\* The program ends.
ChildExit ==
    /\ sp.cpc = "running"
    /\ sp.prog = <<>>
    /\ \E st \in ProgramEnds :
          sp' = [sp EXCEPT !.pipe = ChildGone(sp.pipe), !.cpc = "exited",
                           !.status = st]
    /\ SpOnly

\* --------------------------------------------------------- vboot_display

\* The screen that disp_current_screen starts at (line 656).
VB_SCREEN_BLANK == 0

Screens == VB_SCREEN_BLANK..MaxScreen

MenuIndexes == 0..MaxIndex

\* The values of loc and count that are sampled: the small ones and the
\* two largest of uint32_t.
U32Max == <<Half - 1, Half - 1>>

LocSamples ==
    {U32(n) : n \in 0..MaxLoc} \cup {U32Max, <<Half - 1, Half - 2>>}

Keys == {"tab", "VB_KEY_ESC", "VB_KEY_LEFT", "VB_KEY_RIGHT", "VB_KEY_UP",
         "VB_KEY_DOWN", "other"}

ArrowKeys == {"VB_KEY_LEFT", "VB_KEY_RIGHT", "VB_KEY_UP", "VB_KEY_DOWN"}

\* What the platform has on the display: a screen alone, or a screen with
\* its menu and the selected index.
DrawnScreen(screen) == [kind |-> "screen", screen |-> screen, index |-> -1]

DrawnMenu(screen, selected_index) ==
    [kind |-> "menu", screen |-> screen, index |-> selected_index]

NoKey == [key |-> "none", got_count |-> FALSE, count |-> U32Zero,
          loc |-> U32Zero]

\* The record of a call: its arguments, whether it returned before the
\* draw routine, redraw_base_screen as passed on, the display and
\* disp_current_screen as they were at the call, and the arrow key that
\* led to it.
CallRecord(d, fn, screen, force, selected_index, skipped, redraw) ==
    [fn |-> fn, screen |-> screen, force |-> force, index |-> selected_index,
     skipped |-> skipped, redraw_base_screen |-> redraw,
     was_drawn |-> d.drawn, was_screen |-> d.disp_current_screen,
     key |-> NoKey]

\* VbDisplayScreen(ctx, screen, force, data), lines 671-687;
\* VbExDisplayScreen puts the screen on the display.
VbDisplayScreen(d, screen, force) ==
    IF d.disp_current_screen = screen /\ ~force
    THEN [d EXCEPT !.last = CallRecord(d, "VbDisplayScreen", screen, force,
                                       -1, TRUE, FALSE)]
    ELSE [d EXCEPT
             !.disp_current_screen = screen,
             !.drawn = DrawnScreen(screen),
             !.debug_info = FALSE,
             !.last = CallRecord(d, "VbDisplayScreen", screen, force, -1,
                                 FALSE, FALSE)]

\* Line 708 with the test of force left out.
RedrawWhenScreenChanged(current, screen, force) == current # screen

\* Line 708: disp_current_screen != screen || force.
RedrawBaseScreen(current, screen, force) == current # screen \/ force

\* VbDisplayMenu(ctx, screen, force, selected_index, disabled_idx_mask),
\* lines 689-724; VbExDisplayMenu puts the menu on the display.
VbDisplayMenu(d, screen, force, selected_index, disabled_idx_mask) ==
    IF /\ d.disp_current_screen = screen
       /\ d.disp_current_index = selected_index
       /\ ~force
    THEN [d EXCEPT !.last = CallRecord(d, "VbDisplayMenu", screen, force,
                                       selected_index, TRUE, FALSE)]
    ELSE [d EXCEPT
             !.disp_current_screen = screen,
             !.disp_current_index = selected_index,
             !.disp_disabled_idx_mask = disabled_idx_mask,
             !.drawn = DrawnMenu(screen, selected_index),
             !.debug_info = FALSE,
             !.last = CallRecord(d, "VbDisplayMenu", screen, force,
                                 selected_index, FALSE,
                                 RedrawBaseScreen(d.disp_current_screen,
                                                  screen, force))]

\* Lines 995-998 with loc held against count instead of count - 1 and 0.
NextLocWithinCount(key, loc, got_count, count) ==
    IF ~got_count THEN U32Zero
    ELSE IF key \in {"VB_KEY_RIGHT", "VB_KEY_UP"}
    THEN (IF LtU32(AddU32(loc, U32(1)), count)
          THEN AddU32(loc, U32(1)) ELSE U32Zero)
    ELSE (IF GtU32(loc, U32Zero) /\ LeU32(loc, count) /\ count # U32Zero
          THEN AddU32(loc, U32Max)
          ELSE IF count = U32Zero THEN U32Zero ELSE AddU32(count, U32Max))

\* Lines 992-998: the localization index after an arrow key; count - 1 and
\* loc - 1 are computed in uint32_t (adding 2^32 - 1).
NextLoc(key, loc, got_count, count) ==
    IF ~got_count THEN U32Zero
    ELSE IF key \in {"VB_KEY_RIGHT", "VB_KEY_UP"}
    THEN (IF LtU32(loc, AddU32(count, U32Max))
          THEN AddU32(loc, U32(1)) ELSE U32Zero)
    ELSE (IF GtU32(loc, U32Zero)
          THEN AddU32(loc, U32Max) ELSE AddU32(count, U32Max))

\* VbCheckDisplayKey(ctx, key, data), lines 972-1016.  got_count and count
\* are what VbExGetLocalizationCount gives; the value handed to vb2_nv_set
\* is kept in nv_localization_index.  Tab shows the debug information over
\* the screen; any other key does nothing.
VbCheckDisplayKey(d, key, got_count, count) ==
    IF key = "tab"
    THEN [d EXCEPT !.debug_info = TRUE,
                   !.last = CallRecord(d, "VbDisplayDebugInfo", -1, FALSE,
                                       -1, FALSE, FALSE)]
    ELSE IF key = "VB_KEY_ESC"
    THEN VbDisplayScreen(d, d.disp_current_screen, TRUE)
    ELSE IF key \in ArrowKeys
    THEN LET loc == NextLoc(key, d.nv_localization_index, got_count, count)
             d1 == [d EXCEPT !.nv_localization_index = loc, !.keys = @ + 1]
         IN  [VbDisplayScreen(d1, d1.disp_current_screen, TRUE)
                 EXCEPT !.last.fn = "VbCheckDisplayKey",
                        !.last.key = [key |-> key, got_count |-> got_count,
                                      count |-> count,
                                      loc |-> d.nv_localization_index]]
    ELSE [d EXCEPT !.last = CallRecord(d, "VbCheckDisplayKey", -1, FALSE, -1,
                                       FALSE, FALSE)]

NoCall ==
    [fn |-> "none", screen |-> -1, force |-> FALSE, index |-> -1,
     skipped |-> FALSE, redraw_base_screen |-> FALSE,
     was_drawn |-> DrawnScreen(VB_SCREEN_BLANK),
     was_screen |-> VB_SCREEN_BLANK, key |-> NoKey]

\* Lines 656-658: the display starts blank, which is what
\* disp_current_screen says; the nvdata holds any localization index.
DispInit ==
    \E loc \in LocSamples :
        disp = [disp_current_screen |-> VB_SCREEN_BLANK,
                disp_current_index |-> 0,
                disp_disabled_idx_mask |-> 0,
                nv_localization_index |-> loc,
                drawn |-> DrawnScreen(VB_SCREEN_BLANK),
                debug_info |-> FALSE,
                last |-> NoCall, keys |-> 0]

DispIdle == disp = [disp_current_screen |-> -1]

DisplayScreenCall ==
    /\ "drawn" \in DOMAIN disp
    /\ \E screen \in Screens, force \in BOOLEAN :
          disp' = VbDisplayScreen(disp, screen, force)
    /\ DispOnly

DisplayMenuCall ==
    /\ "drawn" \in DOMAIN disp
    /\ \E screen \in Screens, force \in BOOLEAN,
          selected_index \in MenuIndexes, disabled_idx_mask \in 0..1 :
          disp' = VbDisplayMenu(disp, screen, force, selected_index,
                                disabled_idx_mask)
    /\ DispOnly

\* The weak VbExGetLocalizationCount of lines 660-664 gives an error and
\* a count of 0; the platform's own gives any count.
CheckDisplayKeyCall ==
    /\ "drawn" \in DOMAIN disp
    /\ \E key \in Keys, got_count \in BOOLEAN, count \in LocSamples :
          /\ key \in ArrowKeys => disp.keys < MaxKeys
          /\ ~got_count => count = U32Zero
          /\ disp' = VbCheckDisplayKey(disp, key, got_count, count)
    /\ DispOnly

\* --------------------------------------------------------------- do_flash

\* The actions of do_flash in the order of lines 266-279, each with the
\* option that asks for it.
FlashActions ==
    <<"flash-info", "flash-size", "wp-enable", "wp-disable", "wp-status">>

FlashWanted(o, a) ==
    CASE a = "flash-info" -> o.get_info
      [] a = "flash-size" -> o.get_size
      [] a = "wp-enable" -> o.enable_wp
      [] a = "wp-disable" -> o.disable_wp
      [] a = "wp-status" -> o.get_wp_status

\* Where do_flash goes after the action a.
FlashAfter(a) ==
    CASE a = "flash-info" -> "flash-size"
      [] a = "flash-size" -> "wp-enable"
      [] a = "wp-enable" -> "wp-disable"
      [] a = "wp-disable" -> "wp-status"
      [] a = "wp-status" -> "teardown"

\* The command lines: what getopt_long's loop comes to (every option read,
\* --help met, or an option not recognized or an argument left over), the
\* six flags, and --servo among the shared flash arguments.
FlashCommandLines ==
    [parsed : {"options", "help", "error"},
     get_wp_status : BOOLEAN, ignore_hw_wp : BOOLEAN, enable_wp : BOOLEAN,
     disable_wp : BOOLEAN, get_info : BOOLEAN, get_size : BOOLEAN,
     detect_servo : BOOLEAN]

\* Lines 200-259 of do_flash: whether it returns 0 or 1 before
\* setup_flash, or goes on.
FlashCheckOptions(o) ==
    IF o.parsed = "help" THEN "return 0"
    ELSE IF o.parsed = "error" THEN "return 1"
    ELSE IF /\ ~o.get_size /\ ~o.get_info /\ ~o.enable_wp /\ ~o.disable_wp
            /\ ~o.get_wp_status
    THEN "return 0"
    ELSE IF ~o.get_wp_status /\ o.ignore_hw_wp THEN "return 1"
    ELSE IF o.enable_wp /\ o.disable_wp THEN "return 1"
    ELSE "go on"

\* setup_flash(cfg, args, update_needed), part_001 lines 10-49, built with
\* USE_FLASHROM: whether updater_new_config, host_detect_servo and
\* updater_setup_config succeed is the caller's draw.  config is the
\* updater_config object, cfg the pointer *cfg, servo whether
\* prepare_servo_control(name, true) has been called.
setup_flash(o, new_ok, servo_ok, setup_ok) ==
    IF ~new_ok
    THEN [rv |-> 1, cfg |-> "NULL", config |-> "none", servo |-> FALSE]
    ELSE IF o.detect_servo /\ ~servo_ok
    THEN [rv |-> 1, cfg |-> "NULL", config |-> "deleted", servo |-> FALSE]
    ELSE IF ~setup_ok
    THEN [rv |-> 1, cfg |-> "NULL", config |-> "deleted", servo |-> FALSE]
    ELSE [rv |-> 0, cfg |-> "config", config |-> "live", servo |-> TRUE]

\* Lines 269-279 with the test of ret left out.
RunsWhenWanted(ret, wanted) == wanted

\* Lines 266-279: "if (!ret && get_size)"; ret is 0 before the first action.
RunsAction(ret, wanted) == ret = 0 /\ wanted

FlashInit ==
    \E o \in FlashCommandLines :
        fl = [pc |-> "options", o |-> o, cfg |-> "NULL", config |-> "none",
              servo |-> FALSE, ret |-> 0, events |-> <<>>]

FlashIdle == fl = [pc |-> "off"]

\* Lines 186-259.
FlashOptions ==
    /\ fl.pc = "options"
    /\ fl' = IF FlashCheckOptions(fl.o) = "go on"
             THEN [fl EXCEPT !.pc = "setup"]
             ELSE [fl EXCEPT !.pc = "returned",
                             !.ret = IF FlashCheckOptions(fl.o) = "return 0"
                                     THEN 0 ELSE 1]
    /\ FlashOnly

\* Lines 261-264.
FlashSetup ==
    /\ fl.pc = "setup"
    /\ \E new_ok, servo_ok, setup_ok \in BOOLEAN :
          LET r == setup_flash(fl.o, new_ok, servo_ok, setup_ok)
          IN  fl' = IF r.rv # 0
                    THEN [fl EXCEPT !.pc = "returned", !.ret = 1,
                                    !.cfg = r.cfg, !.config = r.config,
                                    !.servo = r.servo,
                                    !.events = Append(@, <<"setup_flash", r.rv>>)]
                    ELSE [fl EXCEPT !.pc = FlashActions[1],
                                    !.cfg = r.cfg, !.config = r.config,
                                    !.servo = r.servo,
                                    !.events = Append(@, <<"setup_flash", 0>>)]
    /\ FlashOnly

\* One of lines 266-279: the action a runs, and succeeds or fails, or is
\* passed over.
FlashAction(a) ==
    /\ fl.pc = a
    /\ IF RunsAction(fl.ret, FlashWanted(fl.o, a))
       THEN \E r \in {0, 1} :
               fl' = [fl EXCEPT !.ret = r, !.events = Append(@, <<a, r>>),
                                !.pc = FlashAfter(a)]
       ELSE fl' = [fl EXCEPT !.pc = FlashAfter(a)]
    /\ FlashOnly

\* Lines 281-282 and teardown_flash, part_001 lines 51-57.
FlashTeardown ==
    /\ fl.pc = "teardown"
    /\ fl' = [fl EXCEPT !.servo = FALSE, !.config = "deleted",
                        !.events = Append(@, <<"teardown_flash", 0>>),
                        !.pc = "returned"]
    /\ FlashOnly

\* ------------------------------------------------------ specifications

vars == <<lim, wnp, prep, biosVars, kuVars, rec, sp, disp, fl>>

Init == BiosInit /\ LimIdle /\ WnpIdle /\ PrepIdle /\ KuIdle /\ RecIdle /\ SpIdle /\ DispIdle /\ FlashIdle

Next ==
    \/ ImageCheckAndPrepareCbfs(BIOS_FMAP_FW_MAIN_A, "cbfs_a", "cbfs_b")
    \/ ImageCheckAndPrepareCbfs(BIOS_FMAP_FW_MAIN_B, "cbfs_b", "map")
    \/ MapFile
    \/ PrepareSlotStep(BIOS_FMAP_FW_MAIN_A, BIOS_FMAP_VBLOCK_A,
                       "prepare_a", "prepare_b")
    \/ PrepareSlotStep(BIOS_FMAP_FW_MAIN_B, BIOS_FMAP_VBLOCK_B,
                       "prepare_b", "check")
    \/ CheckSlotsAfterPrepare
    \/ SignBiosAtEnd
    \/ ShowComponent
    \/ ShowReturn

Spec == Init /\ [][Next]_vars

InitLimit == LimInit /\ WnpIdle /\ PrepIdle /\ BiosIdle /\ KuIdle /\ RecIdle /\ SpIdle /\ DispIdle /\ FlashIdle

NextLimit == LimCall

SpecLimit == InitLimit /\ [][NextLimit]_vars

InitPreamble == WnpInit /\ LimIdle /\ PrepIdle /\ BiosIdle /\ KuIdle /\ RecIdle /\ SpIdle /\ DispIdle /\ FlashIdle

NextPreamble == WnpCall

SpecPreamble == InitPreamble /\ [][NextPreamble]_vars

InitKernel == KuInit /\ LimIdle /\ WnpIdle /\ PrepIdle /\ BiosIdle /\ RecIdle /\ SpIdle /\ DispIdle /\ FlashIdle

NextKernel ==
    \/ KuMain
    \/ KuDescribe
    \/ KuGenerate
    \/ KuOutput
    \/ KuVerify

SpecKernel == InitKernel /\ [][NextKernel]_vars

InitPrepare == PrepInit /\ LimIdle /\ WnpIdle /\ BiosIdle /\ KuIdle /\ RecIdle /\ SpIdle /\ DispIdle /\ FlashIdle

NextPrepare == PrepCall

SpecPrepare == InitPrepare /\ [][NextPrepare]_vars

InitRecognize ==
    /\ RecInit /\ LimIdle /\ WnpIdle /\ PrepIdle
    /\ BiosIdle /\ KuIdle /\ SpIdle /\ DispIdle /\ FlashIdle

NextRecognize == RecCall

SpecRecognize == InitRecognize /\ [][NextRecognize]_vars

InitSubprocess ==
    /\ SpInit /\ LimIdle /\ WnpIdle /\ PrepIdle /\ RecIdle
    /\ BiosIdle /\ KuIdle /\ DispIdle /\ FlashIdle

\* The steps that parent and child take whenever they can.
StepSubprocess ==
    \/ InitTargets
    \/ Fork
    \/ ChildConnectExec
    \/ InputBegin
    \/ InputWrite
    \/ InputCleanup
    \/ OutputBegin("output")
    \/ OutputBegin("error")
    \/ OutputRead("output")
    \/ OutputRead("error")
    \/ OutputEnd("output")
    \/ OutputEnd("error")
    \/ Waitpid
    \/ Fail
    \/ ChildRead
    \/ ChildWrite("output", "out")
    \/ ChildWrite("error", "err")
    \/ ChildExit

\* The failures of read and waitpid, which may happen or not.
FaultSubprocess ==
    \/ OutputReadFails("output")
    \/ OutputReadFails("error")
    \/ WaitpidFails

NextSubprocess == StepSubprocess \/ FaultSubprocess

SpecSubprocess == InitSubprocess /\ [][NextSubprocess]_vars

\* The scheduler runs a process that can run: a step that stays possible
\* is taken.  No failure has to happen.
SpecSubprocessFair == SpecSubprocess /\ WF_vars(StepSubprocess)

InitDisplay == DispInit /\ LimIdle /\ WnpIdle /\ PrepIdle /\ BiosIdle /\ KuIdle /\ RecIdle /\ SpIdle /\ FlashIdle

NextDisplay ==
    \/ DisplayScreenCall
    \/ DisplayMenuCall
    \/ CheckDisplayKeyCall

SpecDisplay == InitDisplay /\ [][NextDisplay]_vars

InitFlash == FlashInit /\ LimIdle /\ WnpIdle /\ PrepIdle /\ BiosIdle /\ KuIdle /\ RecIdle /\ SpIdle /\ DispIdle

NextFlash ==
    \/ FlashOptions
    \/ FlashSetup
    \/ FlashAction("flash-info")
    \/ FlashAction("flash-size")
    \/ FlashAction("wp-enable")
    \/ FlashAction("wp-disable")
    \/ FlashAction("wp-status")
    \/ FlashTeardown

SpecFlash == InitFlash /\ [][NextFlash]_vars

\* ---------------------------------------------------------- properties

\* Whether a + b, computed without loss, is more than len.
SumExceeds(a, b, len) ==
    LET lo == a[2] + b[2]
        hi == a[1] + b[1] + (lo \div Half)
    IN  hi >= Half \/ GtU32(<<hi, lo % Half>>, len)

\* C1: write_new_preamble, for every keyblock size, preamble size and
\* VBLOCK length: when the two sizes together are more than the length,
\* the call returns nonzero and not a byte of the buffer is changed.
C1_UndersizedAreaNeverWritten ==
    (wnp.pc \in {"done", "crashed"}
     /\ SumExceeds(wnp.keyblock_size, wnp.preamble_size, wnp.vblock.len))
    => /\ wnp.pc = "done"
       /\ wnp.retval # 0
       /\ ~wnp.overrun
       /\ wnp.bytes = OrigBytes(WnpBufLen)

\* C4: fmap_limit_area(ah, len): when offset + size, computed without
\* loss, is more than len, offset and size are both 0 afterwards; otherwise
\* they are as they were; either way the area lies within len.
C4_LimitAreaClamps ==
    lim.pc = "done" =>
        /\ IF SumExceeds(lim.in.area_offset, lim.in.area_size, lim.len)
           THEN lim.ah = [area_offset |-> U32Zero, area_size |-> U32Zero]
           ELSE lim.ah = lim.in
        /\ ~SumExceeds(lim.ah.area_offset, lim.ah.area_size, lim.len)

\* An area whose sum wraps round to a value within len has been clamped.
C4_WrappedAreaClamped ==
    /\ lim.pc = "done"
    /\ lim.in.area_offset[1] + lim.in.area_size[1] >= Half
    /\ LeU32(AddU32(lim.in.area_offset, lim.in.area_size), lim.len)
    /\ lim.in.area_size # U32Zero
    /\ lim.ah = [area_offset |-> U32Zero, area_size |-> U32Zero]

\* Whether write_new_preamble was called for the VBLOCK area vblock_c.
Written(vblock_c) ==
    \E i \in 1..Len(trace) :
        trace[i][1] = "write_new_preamble" /\ trace[i][2] = vblock_c

\* Whether the area header ah declares an area that reaches past the end
\* of the image.
OutOfBounds(ah) ==
    ah.found /\ SumExceeds(ah.area_offset, ah.area_size, buf_len)

\* Whether write_new_preamble was called for vblock_c and returned nonzero.
WriteFailed(vblock_c) ==
    \E i \in 1..Len(trace) :
        /\ trace[i][1] = "write_new_preamble"
        /\ trace[i][2] = vblock_c
        /\ trace[i][4] # 0

\* C2: signing is all-or-nothing: when ft_sign_bios returns nonzero
\* because the new chain of slot A could not be written, the bytes of the
\* image, those of slot B's VBLOCK included, are all as they were when the
\* file was opened.
C2_FailureLeavesImageUnsigned ==
    (op = "sign" /\ pc = "done" /\ retval # 0
     /\ WriteFailed(BIOS_FMAP_VBLOCK_A))
    => buf = orig.buf

\* C3: in every mode, CBFS integration included: when the FMAP has no
\* FW_MAIN_B and slot A's areas are whole and the file could be mapped,
\* the run goes through to the end and slot A is signed.
C3_SlotBAbsentSlotASigned ==
    (/\ op = "sign"
     /\ pc \in {"done", "fatal", "crashed"}
     /\ ~orig.fmap[BIOS_FMAP_FW_MAIN_B].found
     /\ orig.fmap[BIOS_FMAP_FW_MAIN_A] = AreaHeader(BIOS_FMAP_FW_MAIN_A, "whole")
     /\ orig.fmap[BIOS_FMAP_VBLOCK_A] = AreaHeader(BIOS_FMAP_VBLOCK_A, "whole")
     /\ <<"ERROR", "cannot map", "">> \notin log
     /\ uses_cbfs_integration => state[BIOS_FMAP_FW_MAIN_A].metadata_hash)
    => /\ pc # "fatal"
       /\ Written(BIOS_FMAP_VBLOCK_A)

\* C5: on the show path and on the sign path, an area that the FMAP
\* declares to reach past the end of the image is never marked is_valid.
C5_OutOfBoundsAreaNeverValid ==
    op \in {"show", "sign"} =>
        \A c \in Components :
            OutOfBounds(orig.fmap[c]) => ~state[c].is_valid

\* C6: ft_show_bios leaves the mapped image as it was opened, the
\* area_offset and area_size entries of its FMAP table included.
C6_ShowLeavesImageUnchanged ==
    op = "show" => (buf = orig.buf /\ fmap = orig.fmap)

\* Whether byte i of the image lies in a VBLOCK area of the FMAP as it was
\* when the file was opened.
InVblockArea(i) ==
    \E c \in Vblocks :
        /\ orig.fmap[c].found
        /\ orig.fmap[c].area_offset[1] = 0
        /\ i >= orig.fmap[c].area_offset[2]
        /\ (orig.fmap[c].area_size[1] > 0
            \/ i - orig.fmap[c].area_offset[2] < orig.fmap[c].area_size[2])

\* C7: ft_sign_bios changes no byte outside the two VBLOCK areas: the
\* FMAP table, the GBB and the firmware bodies are as they were, on whole
\* and on truncated images.
C7_SignChangesOnlyVblocks ==
    op = "sign" =>
        /\ fmap = orig.fmap
        /\ \A i \in DOMAIN buf : ~InVblockArea(i) => buf[i] = orig.buf[i]

\* Whether the metadata hash of area fw_c has been asked for and not found.
HashNotFound(fw_c) ==
    /\ pc # "cbfs_a"
    /\ fw_c = BIOS_FMAP_FW_MAIN_B => pc # "cbfs_b"
    /\ ~state[fw_c].metadata_hash

\* C10: with CBFS integration, once the metadata hash of a slot has not
\* been found the run has ended with FATAL: no VBLOCK has been written
\* and no LOEM file made.
C10_MissingHashIsFatal ==
    (/\ op = "sign"
     /\ uses_cbfs_integration
     /\ \E fw_c \in FwMains : HashNotFound(fw_c))
    => /\ pc = "fatal"
       /\ \E m \in log : m[1] = "FATAL"
       /\ trace = <<>>
       /\ buf = orig.buf
       /\ loem = {}

\* The hash of slot A was found and that of slot B was not.
C10_FatalOnSlotB ==
    /\ op = "sign"
    /\ uses_cbfs_integration
    /\ state[BIOS_FMAP_FW_MAIN_A].metadata_hash
    /\ HashNotFound(BIOS_FMAP_FW_MAIN_B)
    /\ orig.fmap[BIOS_FMAP_FW_MAIN_B].found
    /\ pc = "fatal"

\* Whether the subkey header file holds a checksum field, and the checksum
\* of the header fields before it is another.
StoredChecksumDiffers(file) ==
    /\ Len(file) >= 5
    /\ LET at == GetKernelHeaderLen(file[4])
       IN  /\ Len(file) >= at
           /\ file[at] # HeaderChecksum(file[1], file[2], file[3], file[4],
                                        file[5], SubSeq(file, 6, at - 1))

\* Whether all of the subkey header file but its checksum is as
\* GenerateSignedImage wants it.
RightButForChecksum(file) ==
    /\ Len(file) >= 5
    /\ file[3] < kNumAlgorithms
    /\ file[4] < kNumAlgorithms
    /\ file[2] = GetKernelHeaderLen(file[4])
    /\ Len(file) = file[2] + SigLen(file[3])

\* C8: kernel_utility --generate with --subkey_in: when the checksum held
\* in the subkey header file is not the checksum of its header fields,
\* GenerateSignedImage returns false with no signature operation called,
\* and main returns -1 without writing the output file.
C8_ChecksumMismatchRejected ==
    (/\ returned # "no"
     /\ options.is_generate
     /\ "subkey_in" \in options.files
     /\ StoredChecksumDiffers(subkey_header_buf))
    => /\ returned = "false"
       /\ calls = <<>>
       /\ kpc = "exit"
       /\ exit_status = -1

\* A file rejected for its checksum alone.
C8_RejectedForChecksumAlone ==
    /\ kpc = "exit"
    /\ options.is_generate
    /\ "subkey_in" \in options.files
    /\ RightButForChecksum(subkey_header_buf)
    /\ StoredChecksumDiffers(subkey_header_buf)
    /\ returned = "false"
    /\ exit_status = -1

\* Whether the library operation name is among those called.
Called(name) == \E i \in 1..Len(calls) : calls[i] = name

\* C9: in both modes, when GenerateSignedImage returns true the kernel
\* version of the command line is in the image, a kernel body has been
\* generated and AddKernelSignature has been called on it.
C9_TrueMeansSigned ==
    (returned = "true" /\ options.is_generate)
    => /\ "kernel_version" \in DOMAIN image_
       /\ image_.kernel_version = Uint16(options.kernel_version)
       /\ "kernel_data" \in DOMAIN image_
       /\ Called("GenerateKernelBlob")
       /\ Called("AddKernelSignature")

\* The size of the area that ah declares, as far as it lies in the image:
\* nothing of an area that reaches past the end.
ClampedSize(ah) == IF OutOfBounds(ah) THEN U32Zero ELSE ah.area_size

\* Whether the chain ch in a VBLOCK area of vlen bytes passes every check
\* prepare_slot makes of it, for a body of body_len bytes and the explicit
\* length fw_size.
ChainValidates(ch, vlen, fw_size, body_len) ==
    /\ ch.keyblock_hash_ok
    /\ ch.data_key_ok
    /\ ch.unpack_ok
    /\ ~SumExceeds(ch.keyblock_size, U32(SizeofFwPreamble), vlen)
    /\ ch.preamble_ok
    /\ fw_size = U32Zero => ~GtU32(ch.data_size, body_len)

\* The chain of the finished prepare_slot call validates.
PrepChainValidates ==
    ChainValidates(prep.in.chain,
                   ClampedSize(prep.in.fmap[prep.in.vblock_c]),
                   prep.in.state[prep.in.fw_c].fw_size,
                   ClampedSize(prep.in.fmap[prep.in.fw_c]))

PrepWarnsNoCbfs ==
    <<"WARN", "no CBFS, signing entire area", prep.in.fw_c>> \in prep.r.log

\* C11 as stated: after a successful prepare_slot the length of the body is
\* the explicit length fw_size when that is not 0, and otherwise the length
\* of the FW_MAIN area, with a warning when there is no metadata hash; no
\* other length is used.
C11_LengthFromSizeOrArea ==
    (prep.pc = "done" /\ prep.r.retval = 0) =>
        LET fw_c == prep.in.fw_c
            fw_size == prep.in.state[fw_c].fw_size
        IN  /\ prep.r.state[fw_c].len =
                  (IF fw_size # U32Zero THEN fw_size
                   ELSE ClampedSize(prep.in.fmap[fw_c]))
            /\ (fw_size = U32Zero /\ ~prep.in.state[fw_c].metadata_hash)
                   => PrepWarnsNoCbfs

\* C11, amended: after a successful prepare_slot the length of the body is
\* the explicit length fw_size when that is not 0; with no explicit length
\* it is the body size declared by the existing preamble when the existing
\* chain validates, and the length of the FW_MAIN area otherwise.  The
\* warning is printed exactly when there is neither an explicit length nor
\* a metadata hash.
C11_LengthFromSizeChainOrArea ==
    (prep.pc = "done" /\ prep.r.retval = 0) =>
        LET fw_c == prep.in.fw_c
            fw_size == prep.in.state[fw_c].fw_size
        IN  /\ prep.r.state[fw_c].len =
                  (IF fw_size # U32Zero THEN fw_size
                   ELSE IF PrepChainValidates THEN prep.in.chain.data_size
                   ELSE ClampedSize(prep.in.fmap[fw_c]))
            /\ PrepWarnsNoCbfs <=>
                  (fw_size = U32Zero /\ ~prep.in.state[fw_c].metadata_hash)

\* With no explicit length, the body of a slot with a valid chain got the
\* length its preamble declares, which is not that of the area.
C11_LengthTakenFromPreamble ==
    /\ prep.pc = "done"
    /\ prep.r.retval = 0
    /\ prep.in.state[prep.in.fw_c].fw_size = U32Zero
    /\ PrepChainValidates
    /\ prep.in.chain.data_size # ClampedSize(prep.in.fmap[prep.in.fw_c])
    /\ prep.r.state[prep.in.fw_c].len = prep.in.chain.data_size

\* C12: each body signature that write_new_preamble made was made from
\* the metadata hash when, and only when, the body has a valid one, and was
\* otherwise computed over the first len bytes of the body; a body has a
\* valid metadata hash only in a run with CBFS integration.
C12_SignatureFromHashOnlyWithIntegration ==
    op = "sign" =>
        /\ \A fw_c \in FwMains :
               state[fw_c].metadata_hash => uses_cbfs_integration
        /\ \A i \in 1..Len(trace) :
               (trace[i][1] = "write_new_preamble" /\ trace[i][5].kind # "none")
               => trace[i][5] =
                     (IF state[trace[i][3]].metadata_hash
                      THEN [kind |-> "from_hash",
                            data_size |-> state[trace[i][3]].len]
                      ELSE [kind |-> "calculated",
                            data_size |-> state[trace[i][3]].len])

\* A run with CBFS integration has signed slot A from its metadata hash.
C12_SignedFromHash ==
    /\ op = "sign"
    /\ pc = "done"
    /\ uses_cbfs_integration
    /\ state[BIOS_FMAP_FW_MAIN_A].metadata_hash
    /\ Len(trace) >= 1
    /\ trace[1][5].kind = "from_hash"
    /\ trace[1][4] = 0

\* Whether the finished prepare_slot call found both areas of its slot and
\* an explicit length no longer than the body area.
PrepSlotFound ==
    /\ prep.in.fmap[prep.in.fw_c].found
    /\ prep.in.fmap[prep.in.vblock_c].found
    /\ ~GtU32(prep.in.state[prep.in.fw_c].fw_size,
              ClampedSize(prep.in.fmap[prep.in.fw_c]))

\* Whether the chain of the finished call passes the five checks, the
\* declared body size being held against the length of the body whether
\* that is explicit or that of the area.
PrepWholeChainValid ==
    LET fw_size == prep.in.state[prep.in.fw_c].fw_size
        body_len == IF fw_size # U32Zero THEN fw_size
                    ELSE ClampedSize(prep.in.fmap[prep.in.fw_c])
    IN  ChainValidates(prep.in.chain,
                       ClampedSize(prep.in.fmap[prep.in.vblock_c]),
                       U32Zero, body_len)

\* The flags and the version a finished call chose, given whether the
\* existing chain counts as valid.
PrepChose(valid) ==
    LET so == prep.in.sign_option
        vb == prep.r.state[prep.in.vblock_c]
    IN  /\ vb.flags = (IF so.flags_specified THEN so.flags
                       ELSE IF valid THEN prep.in.chain.flags ELSE 0)
        /\ vb.version = (IF so.version_specified THEN so.version
                         ELSE IF valid THEN prep.in.chain.firmware_version
                         ELSE 1)

\* C13 as stated: a specified value wins; otherwise the value of the
\* existing preamble is taken only when the chain passes all five checks,
\* the declared body size fitting the body among them; otherwise flags 0
\* and version 1.  Whatever the chain, the call returns 0 and marks the
\* VBLOCK valid.
C13_InheritedOnlyFromWholeChain ==
    (prep.pc = "done" /\ PrepSlotFound) =>
        /\ prep.r.retval = 0
        /\ prep.r.state[prep.in.vblock_c].is_valid
        /\ PrepChose(PrepWholeChainValid)

\* C13, amended: as stated, but the declared body size is held against the
\* body only when no explicit length is given; with an explicit length a
\* chain that passes the other four checks is inherited from.
C13_InheritedFromCheckedChain ==
    (prep.pc = "done" /\ PrepSlotFound) =>
        /\ prep.r.retval = 0
        /\ prep.r.state[prep.in.vblock_c].is_valid
        /\ PrepChose(PrepChainValidates)

\* A call with an explicit length took the flags and the version of a
\* preamble whose declared body size is more than that length.
C13_InheritedWithExplicitLength ==
    /\ prep.pc = "done"
    /\ PrepSlotFound
    /\ prep.in.state[prep.in.fw_c].fw_size # U32Zero
    /\ GtU32(prep.in.chain.data_size, prep.in.state[prep.in.fw_c].fw_size)
    /\ ~prep.in.sign_option.flags_specified
    /\ ~prep.in.sign_option.version_specified
    /\ prep.r.state[prep.in.vblock_c].flags = prep.in.chain.flags
    /\ prep.r.state[prep.in.vblock_c].version = prep.in.chain.firmware_version
    /\ prep.r.state[prep.in.vblock_c].is_valid

\* The show events of the trace, and whether area c was shown.
ShowEvents == {i \in 1..Len(trace) : trace[i][1] = "show"}

Shown(c) == \E i \in ShowEvents : trace[i][2] = c

\* C14: when ft_show_bios returns, each of the five areas that the FMAP
\* has was shown once, whatever the areas before it returned, and no area
\* that the FMAP lacks was; the value returned is 0 exactly when each show
\* routine called returned 0.
C14_ShowsEveryPresentArea ==
    (op = "show" /\ pc = "done") =>
        /\ \A c \in Components : Shown(c) <=> orig.fmap[c].found
        /\ Len(trace) = Cardinality({c \in Components : orig.fmap[c].found})
        /\ retval = 0 <=> (\A i \in ShowEvents : trace[i][3] = 0)

\* The GBB failed and the areas after it were shown all the same, slot B
\* being absent.
C14_ShownAfterFailure ==
    /\ op = "show"
    /\ pc = "done"
    /\ retval # 0
    /\ Len(trace) = 3
    /\ trace[1] = <<"show", BIOS_FMAP_GBB, 1>>
    /\ trace[2][3] = 0
    /\ trace[3][3] = 0
    /\ ~orig.fmap[BIOS_FMAP_FW_MAIN_B].found
    /\ ~orig.fmap[BIOS_FMAP_VBLOCK_B].found

\* Slot B as ft_sign_bios finds it: FW_MAIN_B is in the FMAP, and VBLOCK_B
\* is not or the explicit length is larger than the area as clamped.
SlotBInconsistent ==
    /\ orig.fmap[BIOS_FMAP_FW_MAIN_B].found
    /\ \/ ~orig.fmap[BIOS_FMAP_VBLOCK_B].found
       \/ GtU32(state[BIOS_FMAP_FW_MAIN_B].fw_size,
                ClampedSize(orig.fmap[BIOS_FMAP_FW_MAIN_B]))

\* Slot B was prepared over a chain that did not validate: no version was
\* specified and the version is the default, not that of the old preamble.
SlotBChainMalformed ==
    /\ orig.fmap[BIOS_FMAP_FW_MAIN_B].found
    /\ state[BIOS_FMAP_VBLOCK_B].is_valid
    /\ ~sign_option.version_specified
    /\ state[BIOS_FMAP_VBLOCK_B].version = 1

RankBySlot(c) == CHOOSE i \in 1..Len(fmap_name_by_slot) : fmap_name_by_slot[i] = c

\* The body that goes with a chain.
BodyOf(vblock_c) ==
    IF vblock_c = BIOS_FMAP_VBLOCK_A THEN BIOS_FMAP_FW_MAIN_A
    ELSE BIOS_FMAP_FW_MAIN_B

\* C16 as stated: ft_show_bios shows the areas in the order GBB, slot-A
\* body, slot-A chain, slot-B body, slot-B chain.
C16_ShownSlotBySlot ==
    op = "show" =>
        \A i \in ShowEvents, j \in ShowEvents :
            i < j => RankBySlot(trace[i][2]) < RankBySlot(trace[j][2])

\* C16: ft_show_bios shows the areas in the order GBB, slot-A body,
\* slot-B body, slot-A chain, slot-B chain: the GBB first, no chain before
\* a body, A before B.  When a chain is shown, the GBB and the body of its
\* slot, if the FMAP has them, were shown before it, and each of them that
\* returned 0 is marked valid.
C16_ShownBodiesBeforeChains ==
    op = "show" =>
        /\ \A i \in ShowEvents, j \in ShowEvents :
              i < j =>
                  /\ trace[j][2] # BIOS_FMAP_GBB
                  /\ trace[i][2] # trace[j][2]
                  /\ ~(trace[i][2] \in Vblocks /\ trace[j][2] \in FwMains)
                  /\ ~(/\ trace[i][2] = BIOS_FMAP_FW_MAIN_B
                       /\ trace[j][2] = BIOS_FMAP_FW_MAIN_A)
                  /\ ~(/\ trace[i][2] = BIOS_FMAP_VBLOCK_B
                       /\ trace[j][2] = BIOS_FMAP_VBLOCK_A)
        /\ \A j \in ShowEvents :
              trace[j][2] \in Vblocks =>
                  \A c \in {BIOS_FMAP_GBB, BodyOf(trace[j][2])} :
                      orig.fmap[c].found =>
                          \E i \in ShowEvents :
                              /\ i < j
                              /\ trace[i][2] = c
                              /\ trace[i][3] = 0 => state[c].is_valid

\* All five areas were shown: slot B's body before slot A's chain.
C16_BodyBShownBeforeChainA ==
    /\ op = "show"
    /\ pc = "done"
    /\ Len(trace) = 5
    /\ trace[3][2] = BIOS_FMAP_FW_MAIN_B
    /\ trace[4][2] = BIOS_FMAP_VBLOCK_A
    /\ state[BIOS_FMAP_FW_MAIN_B].is_valid

\* The FMAPs that differ from fm in the areas of slot B at most.
SameButSlotB(fm) ==
    {fm2 \in Fmaps :
        \A c \in Components \ {BIOS_FMAP_FW_MAIN_B, BIOS_FMAP_VBLOCK_B} :
            fm2[c] = fm[c]}

\* C17: ft_recognize_bios_image returns FILE_TYPE_BIOS_IMAGE exactly when
\* an FMAP is found and it has the GBB, FW_MAIN_A and VBLOCK_A areas, and
\* FILE_TYPE_UNKNOWN otherwise; the result is the same for every FMAP that
\* differs in FW_MAIN_B and VBLOCK_B only.
C17_RecognizedIffSlotAAndGbb ==
    rec.pc = "done" =>
        /\ rec.r \in {FILE_TYPE_BIOS_IMAGE, FILE_TYPE_UNKNOWN}
        /\ rec.r = FILE_TYPE_BIOS_IMAGE <=>
               /\ rec.in.fmap_found
               /\ rec.in.fmap[BIOS_FMAP_GBB].found
               /\ rec.in.fmap[BIOS_FMAP_FW_MAIN_A].found
               /\ rec.in.fmap[BIOS_FMAP_VBLOCK_A].found
        /\ \A fm2 \in SameButSlotB(rec.in.fmap) :
               FtRecognizeBiosImage(rec.in.fmap_found, fm2) = rec.r

\* An image without slot B was recognized.
C17_RecognizedWithoutSlotB ==
    /\ rec.pc = "done"
    /\ rec.r = FILE_TYPE_BIOS_IMAGE
    /\ ~rec.in.fmap[BIOS_FMAP_FW_MAIN_B].found
    /\ ~rec.in.fmap[BIOS_FMAP_VBLOCK_B].found

\* C18: when subprocess_run returns, a value that is not negative is the
\* exit status of the program, which was executed and exited normally;
\* after any error (pipe, fork, connecting a target, exec, I/O on a buffer
\* target, waitpid, a child ended by a signal) the value is negative.
C18_NegativeOnEveryError ==
    sp.ppc = "returned" =>
        /\ sp.rv >= 0 => /\ sp.exec_ok
                         /\ sp.status.exited
                         /\ sp.rv = sp.status.code
        /\ sp.errs # {} => sp.rv < 0

\* The program reads its standard input to the end at some point.
ReadsInput == \E i \in 1..Len(sp.prog) : sp.prog[i] = "read"

\* C19: subprocess_run does not block forever: whatever the sizes and the
\* interleaving, with a program that reads all of its input, writes its
\* output and exits, the parent comes to return (or is ended by SIGPIPE).
C19_ParentNeverBlocksForever ==
    ReadsInput => <>(sp.ppc \in {"returned", "killed"})

\* The buffer targets subprocess_run reads into.
OutputBuffers == {s \in {"output", "error"} : IsBuffer(sp.target[s])}

\* The parent is past process_target_output of s without a failure.
OutputDone(s) ==
    \/ sp.ppc = "waitpid"
    \/ s = "output" /\ sp.ppc \in {"error", "error_read", "error_end"}
    \/ sp.ppc = "returned" /\ sp.rv >= 0

\* C20: nothing is stored outside the caller's buffer.  For TARGET_BUFFER
\* bytes_consumed is at most size and is the number of bytes read from the
\* pipe; for TARGET_BUFFER_NULL_TERMINATED of size 1 or more bytes_consumed
\* is at most size - 1 and, once process_target_output has succeeded, the
\* terminator is at buf[bytes_consumed]; with size 0 the call fails and
\* nothing is stored.
C20_OutputStaysInBuffer ==
    sp.ppc # "off" =>
        \A s \in OutputBuffers :
            LET t == sp.target[s]
            IN  /\ t.written \subseteq 0..(t.size - 1)
                /\ t.bytes_consumed # -1 =>
                       /\ t.bytes_consumed = sp.pipe[s].drained
                       /\ t.bytes_consumed <=
                              (IF t.type = TARGET_BUFFER THEN t.size
                               ELSE t.size - 1)
                /\ (t.type = TARGET_BUFFER_NULL_TERMINATED /\ OutputDone(s))
                       => /\ t.size >= 1
                          /\ t.nul = t.bytes_consumed
                          /\ t.nul \in t.written
                /\ (t.type = TARGET_BUFFER_NULL_TERMINATED /\ t.size = 0)
                       => /\ t.written = {}
                          /\ sp.ppc = "returned" => sp.rv < 0

\* The child wrote more than the null-terminated output buffer takes: the
\* buffer is full up to its last byte, which holds the terminator.
C20_FilledToTheTerminator ==
    /\ sp.ppc = "returned"
    /\ sp.rv >= 0
    /\ sp.target["output"].type = TARGET_BUFFER_NULL_TERMINATED
    /\ sp.target["output"].size = OutSize
    /\ sp.target["output"].bytes_consumed = OutSize - 1
    /\ sp.target["output"].nul = OutSize - 1
    /\ sp.target["output"].written = 0..(OutSize - 1)

\* C21: when main returns, the exit status is nonzero if the operation
\* asked for returned false (verification or generation failed), and zero
\* only if it did not fail.
C21_ExitStatusTellsFailure ==
    kpc = "exit" => (returned = "false" => exit_status # 0)

\* Whether the offset o into the VBLOCK area is below the size n, and
\* below the sum of the sizes a and b computed without loss.
Below(o, n) == n[1] > 0 \/ o < n[2]

BelowSum(o, a, b) == a[1] > 0 \/ b[1] > 0 \/ o < a[2] + b[2]

\* C22: after a write_new_preamble that returned 0, the keyblock and the
\* preamble lie within the VBLOCK area: the area's bytes [0, keyblock_size)
\* are the keyblock, [keyblock_size, keyblock_size + preamble_size) the
\* preamble, and every byte of the buffer past them is as it was.
C22_KeyblockThenPreamble ==
    (wnp.pc = "done" /\ wnp.retval = 0) =>
        /\ ~SumExceeds(wnp.keyblock_size, wnp.preamble_size, wnp.vblock.len)
        /\ \A i \in DOMAIN wnp.bytes :
              LET o == i - Nat32(wnp.vblock.offset)
              IN  IF o < 0 THEN wnp.bytes[i] = <<"img", i>>
                  ELSE IF Below(o, wnp.keyblock_size)
                  THEN wnp.bytes[i] = <<"kb", o>>
                  ELSE IF BelowSum(o, wnp.keyblock_size, wnp.preamble_size)
                  THEN wnp.bytes[i] = <<"pre", o - wnp.keyblock_size[2]>>
                  ELSE wnp.bytes[i] = <<"img", i>>

\* Whether the finished prepare_slot call read the preamble at
\* buf + keyblock_size, and the check at which it left the chain.
PrepReadPreamble ==
    \E i \in 1..Len(prep.r.events) :
        prep.r.events[i] = <<"read_preamble", prep.in.vblock_c>>

PrepLeftAt(stage) ==
    \E i \in 1..Len(prep.r.events) :
        prep.r.events[i] = <<"chain", prep.in.vblock_c, stage>>

\* Whether the result of the finished call holds a value that only the
\* existing preamble can have given.
PrepUsedPreambleField ==
    LET so == prep.in.sign_option
        vb == prep.r.state[prep.in.vblock_c]
        fw == prep.r.state[prep.in.fw_c]
    IN  \/ ~so.flags_specified /\ vb.flags = OldFlags
        \/ ~so.version_specified /\ vb.version = OldVersion
        \/ /\ prep.in.state[prep.in.fw_c].fw_size = U32Zero
           /\ fw.len = prep.in.chain.data_size
           /\ fw.len # ClampedSize(prep.in.fmap[prep.in.fw_c])

\* The first check the chain of the finished call fails, in the order of
\* the code, with the keyblock and the minimum preamble held against the
\* length of the VBLOCK area without loss.
PrepFirstFailure ==
    LET ch == prep.in.chain
        vlen == ClampedSize(prep.in.fmap[prep.in.vblock_c])
    IN  IF ~ch.keyblock_hash_ok THEN "keyblock"
        ELSE IF ~ch.data_key_ok THEN "public_key"
        ELSE IF ~ch.unpack_ok THEN "data_key"
        ELSE IF SumExceeds(ch.keyblock_size, U32(SizeofFwPreamble), vlen)
        THEN "no_fit"
        ELSE IF ~ch.preamble_ok THEN "preamble"
        ELSE "later"

\* C23: prepare_slot reads the existing preamble (to verify it, or for its
\* flags, version or body size) only after the keyblock hash and the data
\* key checks passed and keyblock_size plus the minimum preamble size is
\* within the VBLOCK area; the checks run in that order, the first that
\* fails is the one the chain is left at, and the chain then counts as
\* invalid: no field of the preamble is used.
C23_PreambleReadAfterChecks ==
    (prep.pc = "done" /\ prep.r.retval = 0) =>
        /\ PrepReadPreamble <=> PrepFirstFailure \in {"preamble", "later"}
        /\ PrepUsedPreambleField => PrepFirstFailure = "later"
        /\ PrepFirstFailure # "later" =>
               /\ PrepLeftAt(PrepFirstFailure)
               /\ PrepChose(FALSE)

\* The keyblock verified, but keyblock and minimum preamble do not fit the
\* VBLOCK area: the preamble was not read and the defaults were chosen.
C23_NoFitPreambleNotRead ==
    /\ prep.pc = "done"
    /\ prep.r.retval = 0
    /\ PrepLeftAt("no_fit")
    /\ prep.in.chain.preamble_ok
    /\ ~PrepReadPreamble
    /\ ~prep.in.sign_option.flags_specified
    /\ prep.r.state[prep.in.vblock_c].flags = 0

\* Whether the subkey header file is as GenerateSignedImage wants it:
\* both algorithms known, header_len the length computed for them, the
\* checksum that of the header, and not a unit short or left over.
SubkeyWellFormed(file) ==
    /\ RightButForChecksum(file)
    /\ ~StoredChecksumDiffers(file)

\* C24: kernel_utility --generate with --subkey_in: a subkey header file
\* with an algorithm id of kNumAlgorithms or more, a header_len other than
\* the computed one, a checksum that does not match, or a length other
\* than header plus key signature makes GenerateSignedImage return false;
\* main then returns -1 and nothing is written.
C24_MalformedPrefixRejected ==
    (/\ returned # "no"
     /\ options.is_generate
     /\ "subkey_in" \in options.files
     /\ ~SubkeyWellFormed(subkey_header_buf))
    => /\ returned = "false"
       /\ ~Called("WriteKernelImage")
       /\ kpc = "exit"
       /\ exit_status = -1

\* A file with bytes left over after the key signature was rejected, all
\* else in it being right.
C24_RejectedForBytesLeftOver ==
    /\ kpc = "exit"
    /\ options.is_generate
    /\ "subkey_in" \in options.files
    /\ Len(subkey_header_buf) >= 5
    /\ subkey_header_buf[3] < kNumAlgorithms
    /\ subkey_header_buf[4] < kNumAlgorithms
    /\ subkey_header_buf[2] = GetKernelHeaderLen(subkey_header_buf[4])
    /\ ~StoredChecksumDiffers(subkey_header_buf)
    /\ Len(subkey_header_buf) >
           subkey_header_buf[2] + SigLen(subkey_header_buf[3])
    /\ returned = "false"
    /\ exit_status = -1

\* Whether main went on after CheckOptions.
OptionsAccepted ==
    \/ kpc \in {"describe", "generate", "verify", "output"}
    \/ returned # "no"
    \/ calls # <<>>

\* The header fields of 16 bits that GenerateSignedImage fills from the
\* command line.
HeaderFields16 ==
    {"firmware_sign_algorithm", "kernel_sign_algorithm",
     "kernel_key_version", "kernel_version"}

\* C25: a command line that CheckOptions accepts sets exactly one of
\* --describe, --generate, --verify; for --generate the kernel version is
\* in 1..65535 and, without --subkey_in, so is the kernel key version and
\* both algorithms are in 0..kNumAlgorithms-1; each 16-bit header field
\* that fresh-chain generation stores holds the value of the command line.
C25_AcceptedOptionsFitTheHeader ==
    OptionsAccepted
    => /\ Cardinality({m \in {"describe", "generate", "verify"} :
              \/ m = "describe" /\ options.is_describe
              \/ m = "generate" /\ options.is_generate
              \/ m = "verify" /\ options.is_verify}) = 1
       /\ options.is_generate =>
           /\ options.kernel_version \in 1..UINT16_MAX
           /\ "subkey_in" \notin options.files =>
               /\ options.kernel_key_version \in 1..UINT16_MAX
               /\ options.firmware_sign_algorithm \in 0..(kNumAlgorithms - 1)
               /\ options.kernel_sign_algorithm \in 0..(kNumAlgorithms - 1)
               /\ \A f \in HeaderFields16 \cap DOMAIN image_ :
                      image_[f] = options[f]

\* A fresh chain was generated with the largest version numbers and the
\* last algorithm, and all four fields are in the image.
C25_LargestValuesStored ==
    /\ returned = "true"
    /\ options.is_generate
    /\ "subkey_in" \notin options.files
    /\ options.kernel_version = UINT16_MAX
    /\ options.kernel_key_version = UINT16_MAX
    /\ options.firmware_sign_algorithm = kNumAlgorithms - 1
    /\ HeaderFields16 \subseteq DOMAIN image_
    /\ image_.kernel_version = UINT16_MAX
    /\ image_.kernel_key_version = UINT16_MAX

\* C26: after a successful prepare_slot the length of the body is not more
\* than the FW_MAIN area as clamped to the image, and the body ends within
\* the image; with no explicit length it is the declared body size of the
\* existing preamble only when the chain validated and that size is within
\* the area, and the size of the area otherwise.  An explicit length that
\* is more than the area is answered with 1 and an error.
C26_BodyLengthWithinArea ==
    prep.pc = "done" =>
        LET fw_c == prep.in.fw_c
            fw_size == prep.in.state[fw_c].fw_size
            area == ClampedSize(prep.in.fmap[fw_c])
            body == prep.r.state[fw_c]
        IN  /\ prep.r.retval = 0 =>
                /\ LeU32(body.len, area)
                /\ ~SumExceeds(body.buf, body.len, U32(ImageLen))
                /\ fw_size = U32Zero =>
                    /\ body.len \in {prep.in.chain.data_size, area}
                    /\ body.len # area =>
                        /\ PrepChainValidates
                        /\ LeU32(prep.in.chain.data_size, area)
            /\ (prep.in.fmap[fw_c].found /\ GtU32(fw_size, area)) =>
                /\ prep.r.retval = 1
                /\ <<"ERROR", "size incorrect", fw_c>> \in prep.r.log

\* With no explicit length, a preamble that declares more than the whole
\* FW_MAIN area was not followed: the call returned 0 with the length of
\* the area.
C26_LargerDeclaredSizeNotTaken ==
    /\ prep.pc = "done"
    /\ prep.r.retval = 0
    /\ prep.in.state[prep.in.fw_c].fw_size = U32Zero
    /\ ClampedSize(prep.in.fmap[prep.in.fw_c]) = U32(BodySize)
    /\ GtU32(prep.in.chain.data_size, U32(BodySize))
    /\ prep.in.chain.keyblock_hash_ok
    /\ prep.in.chain.preamble_ok
    /\ prep.r.state[prep.in.fw_c].len = U32(BodySize)

\* C30: when subprocess_run returns in the parent after fork succeeded,
\* the child has been waited for and the parent holds no end of a pipe
\* made for a buffer target.
C30_ReturnsReapedAndClosed ==
    (sp.ppc = "returned" /\ sp.cpc # "none") =>
        /\ sp.cpc = "reaped"
        /\ \A s \in Streams : ~sp.pipe[s].p_r /\ ~sp.pipe[s].p_w

\* The last call was one of VbDisplayScreen or VbDisplayMenu made by the
\* caller.
DisplayRequest == disp.last.fn \in {"VbDisplayScreen", "VbDisplayMenu"}

\* What the last call asked to have on the display.
Requested ==
    IF disp.last.fn = "VbDisplayMenu"
    THEN DrawnMenu(disp.last.screen, disp.last.index)
    ELSE DrawnScreen(disp.last.screen)

\* C27: a VbDisplayScreen or VbDisplayMenu call returns before the draw
\* routine only when force is 0 and the display shows what is asked for:
\* the same screen, or for a menu the same screen with a menu and the same
\* selected index.  VbDisplayMenu passes redraw_base_screen on as 1
\* exactly when the screen changed or force is set.
C27_SkippedOnlyWhenAlreadyDrawn ==
    ("drawn" \in DOMAIN disp /\ DisplayRequest) =>
        /\ disp.last.skipped =>
               /\ ~disp.last.force
               /\ disp.last.was_drawn = Requested
        /\ (disp.last.fn = "VbDisplayMenu" /\ ~disp.last.skipped) =>
               (disp.last.redraw_base_screen <=>
                    (disp.last.was_screen # disp.last.screen
                     \/ disp.last.force))

\* C28: after VbCheckDisplayKey handled an arrow key, the localization
\* index it stored is below the count when VbExGetLocalizationCount gave
\* one, and 0 when it gave none, whatever the index stored before and the
\* count.
C28_StoredLocalizationIndexValid ==
    ("drawn" \in DOMAIN disp /\ disp.last.key.key \in ArrowKeys) =>
        IF disp.last.key.got_count
        THEN LtU32(disp.nv_localization_index, disp.last.key.count)
        ELSE disp.nv_localization_index = U32Zero

\* The places in events of the calls of fn that returned rv, and of the
\* actions.
FlashPlaces(fn, rv) ==
    {i \in 1..Len(fl.events) : fl.events[i] = <<fn, rv>>}

FlashActionPlaces ==
    {i \in 1..Len(fl.events) :
        \E k \in 1..Len(FlashActions) : fl.events[i][1] = FlashActions[k]}

FlashRank(a) == CHOOSE k \in 1..Len(FlashActions) : FlashActions[k] = a

\* C29: when do_flash has returned, a setup_flash that succeeded was
\* followed by one teardown_flash, the last thing done, which disabled the
\* servo control and deleted the configuration; the actions in between
\* ran in the order flash-info, flash-size, wp-enable, wp-disable,
\* wp-status, each one asked for and none after one that failed, and every
\* action asked for ran unless one before it failed; after a setup_flash
\* that failed no configuration is left, cfg is NULL, and neither an
\* action nor teardown_flash ran.
C29_SetupThenActionsThenTeardown ==
    fl.pc = "returned" =>
        /\ Cardinality(FlashPlaces("setup_flash", 0)) <= 1
        /\ FlashPlaces("setup_flash", 0) # {} =>
              /\ fl.events[1] = <<"setup_flash", 0>>
              /\ FlashPlaces("teardown_flash", 0) = {Len(fl.events)}
              /\ ~fl.servo
              /\ fl.config = "deleted"
              /\ FlashActionPlaces = 2..(Len(fl.events) - 1)
              /\ \A i, j \in FlashActionPlaces :
                    i < j => /\ FlashRank(fl.events[i][1])
                                  < FlashRank(fl.events[j][1])
                             /\ fl.events[i][2] = 0
              /\ \A i \in FlashActionPlaces :
                    FlashWanted(fl.o, fl.events[i][1])
              /\ \A k \in 1..Len(FlashActions) :
                    (/\ FlashWanted(fl.o, FlashActions[k])
                     /\ \A i \in FlashActionPlaces :
                            fl.events[i][1] # FlashActions[k])
                    => \E i \in FlashActionPlaces :
                           /\ FlashRank(fl.events[i][1]) < k
                           /\ fl.events[i][2] # 0
        /\ FlashPlaces("setup_flash", 0) = {} =>
              /\ FlashPlaces("teardown_flash", 0) = {}
              /\ FlashActionPlaces = {}
              /\ fl.cfg = "NULL"
              /\ fl.config # "live"
              /\ ~fl.servo

\* do_flash returned after flash-info succeeded and flash-size failed, with
\* wp-status asked for and not run, and teardown_flash the last thing done.
C29_TornDownAfterFailedAction ==
    /\ fl.pc = "returned"
    /\ fl.o.get_info /\ fl.o.get_size /\ fl.o.get_wp_status
    /\ fl.events = <<<<"setup_flash", 0>>, <<"flash-info", 0>>,
                     <<"flash-size", 1>>, <<"teardown_flash", 0>>>>
    /\ fl.ret = 1
    /\ ~fl.servo

====
